---- MODULE Spec2Model ----
(***************************************************************************)
(* Medicine reminders of medilink-web: the Reminders page                  *)
(* (src/medilink-web/src/pages/Reminders.tsx) and the alarm hook           *)
(* (src/medilink-web/src/hooks/useAlarm.ts); the air-quality page          *)
(* (src/unnamed/part_002).                                                 *)
(*                                                                         *)
(* Spec is one visit of the Reminders page that starts with nothing in     *)
(* local storage; SpecSessions is a run of visits that starts with any     *)
(* stored value, the page being mounted and torn down; SpecAqi is the      *)
(* air-quality page.                                                       *)
(*                                                                         *)
(* Time is counted in units of the scheduler's polling interval (5000 ms)  *)
(* from an instant at which a UTC day begins; a minute and a day are       *)
(* scaled down (MinuteLen, DayLen).  Within one instant the steps are      *)
(* ordered but take no time: a click that arrives at the instant a tick is *)
(* due may come before the tick.                                           *)
(***************************************************************************)
EXTENDS Integers, Sequences, FiniteSets, TLC

\* ---------------------------------------------------------------- bounds
MinuteLen == 2          \* polling intervals in one minute (scaled)
DayLen == 3             \* minutes in one day (scaled)
MaxNow == 14            \* the clock stops after this many polling intervals
MaxReminders == 2       \* reminders ever created (ids 1..MaxReminders)
MaxPending == 2         \* startAlarm calls that may wait for resume()
MaxUserOps == 3         \* clicks of the user in one run
FirstVisit == 11        \* instant at which SpecSessions begins
ProbeParts == 4         \* concentrations tried in a breakpoint interval:
                        \* its ends and the ProbeParts - 1 points between
TzOffset == 0           \* local time minus UTC, in minutes
FormTimes == {1}        \* "HH:MM" values the form is filled with
FormDays == {4}         \* weekdays the form's day buttons are clicked on
FormTitles == {"", "Med"}
FormEnabled == {TRUE}   \* positions of the form's Enabled switch
SnoozeClicks == {5}     \* snooze buttons the user clicks, in minutes

\* ------------------------------------------------------ program constants
Interval == 1           \* setInterval(..., 5000), in units of 5000 ms
EpochDow == 4           \* Date#getDay() of day 0 (a Thursday)
SnoozeChoices == {5, 10, 15}
RepeatOptions == {"none", "daily", "weekly"}

VARIABLES
    now,               \* Date.now(), in units
    timerDue,          \* instant at which the scheduler's interval fires next
    reminders,         \* useState<Reminder[]>
    activeReminderId,  \* useState<string | null>; 0 is null
    nextId,            \* ids handed out by crypto.randomUUID()
    alarm,             \* useAlarm: stateRef.current, isPlaying, audio nodes
    audioSupported,    \* getAudioContextConstructor() # null
    fired,             \* the reminders triggerReminder was called with by the
                       \* tick just run, in order; <<>> after any other step
    sinceTick,         \* units since the latest tick, counted up to
                       \* Interval + 1; -1 before the first tick
    tickGap,           \* set by a tick to the units since the tick before it
                       \* (0 at the first tick); -1 after any other step
    userOps,           \* clicks made so far
    lastOp,            \* the handler that ran in the latest step
    mounted,           \* the Reminders page is mounted
    storage,           \* localStorage item "reminders_v1"
    loaded,            \* what the load effect read, in the state a mount
                       \* leaves; NoItem after any other step
    country,           \* air-quality page: useState<string>
    air,               \* air-quality page: useState<AirQualityData | null>
    sub,               \* the sub-indices computed for the sample shown
    category,          \* air-quality page: useMemo<CategorySummary>
    queued,            \* lists the load effect handed to setReminders that
                       \* no render has applied yet
    effectPass,        \* times the mount effects have run in this visit
    symptomInput,      \* Dashboard: useState<string>
    analysisResult,    \* Dashboard: useState<SymptomAnalysis | null>
    toast,             \* the toast the symptom handler showed last
    outcome,           \* how the latest analyzeSymptoms call settled
    fetches            \* requests sent to the inference service

pageVars == <<now, timerDue, reminders, activeReminderId, nextId, alarm,
              audioSupported, fired, sinceTick, tickGap, userOps,
              lastOp, mounted, storage, loaded>>

airVars == <<country, air, sub, category>>

mountVars == <<queued, effectPass>>

triageVars == <<symptomInput, analysisResult, toast, outcome, fetches>>

vars == <<now, timerDue, reminders, activeReminderId, nextId, alarm,
          audioSupported, fired, sinceTick, tickGap, userOps,
          lastOp, mounted, storage, loaded, country, air, sub, category,
          queued, effectPass, symptomInput, analysisResult, toast, outcome,
          fetches>>

\* ------------------------------------------------------------- the clock
UtcMinute(t) == t \div MinuteLen
LocalMinute(t) == UtcMinute(t) + TzOffset
\* `${hh}:${mm}` of the local time
CurrentTime(t) == LocalMinute(t) % DayLen
\* new Date().toISOString().slice(0, 10): the UTC date
DateKey(t) == UtcMinute(t) \div DayLen
\* `${dateKey}-${currentTime}`
CurrentKey(t) == <<DateKey(t), CurrentTime(t)>>
\* now.getDay()
Dow(t) == (EpochDow + (LocalMinute(t) \div DayLen)) % 7

\* ------------------------------------------------------------- reminders
NoKey == <<>>
NoDays == <<>>

Range(s) == {s[i] : i \in 1..Len(s)}

Ids(rs) == {rs[i].id : i \in 1..Len(rs)}

RECURSIVE FilterOut(_, _)
FilterOut(rs, id) ==
    IF rs = <<>> THEN <<>>
    ELSE IF Head(rs).id = id THEN FilterOut(Tail(rs), id)
    ELSE <<Head(rs)>> \o FilterOut(Tail(rs), id)

NewReminder(id, title, time, enabled, repeat, weekDays) ==
    [id |-> id, title |-> title, time |-> time, enabled |-> enabled,
     repeat |-> repeat,
     daysOfWeek |-> IF repeat = "weekly" THEN <<weekDays>> ELSE NoDays,
     lastTriggeredKey |-> NoKey,
     nextSnoozeAt |-> 0]

\* ----------------------------------------------------------- persistence
\* A JSON value is kept as what JSON.parse makes of it.  A property value
\* carries the type `typeof` reports for it and its content; a property
\* that is absent has the type "undefined".  An element of an array is an
\* object with the properties of a Reminder, null or a number; a document
\* is an array of elements, an object, null or a number.  The properties
\* daysOfWeek, lastTriggeredKey and nextSnoozeAt, which the validation does
\* not look at, are absent or of the right type in every stored value.
JValue(type, v) == [type |-> type, v |-> v]

Undefined == JValue("undefined", 0)

NoFields ==
    [id |-> Undefined, title |-> Undefined, time |-> Undefined,
     enabled |-> Undefined, repeat |-> Undefined, daysOfWeek |-> Undefined,
     lastTriggeredKey |-> Undefined, nextSnoozeAt |-> Undefined]

JObject(fields) == [kind |-> "object", fields |-> fields]

JNull == [kind |-> "null", fields |-> NoFields]

JNumber == [kind |-> "number", fields |-> NoFields]

JArray(items) == [kind |-> "array", items |-> items]

JOther(kind) == [kind |-> kind, items |-> <<>>]

\* localStorage.getItem(STORAGE_KEY): null, "", a text JSON.parse throws
\* on, or the text of a JSON document
NoItem == [raw |-> "absent", doc |-> JOther("null")]

EmptyItem == [raw |-> "empty", doc |-> JOther("null")]

Unparsable == [raw |-> "unparsable", doc |-> JOther("null")]

JsonText(doc) == [raw |-> "json", doc |-> doc]

\* the object JSON.stringify writes for one reminder: a property whose value
\* is undefined is left out
ToJson(r) ==
    [id |-> JValue("string", r.id),
     title |-> JValue("string", r.title),
     time |-> JValue("string", r.time),
     enabled |-> JValue("boolean", r.enabled),
     repeat |-> JValue("string", r.repeat),
     daysOfWeek |-> IF r.daysOfWeek # NoDays
                    THEN JValue("object", r.daysOfWeek[1]) ELSE Undefined,
     lastTriggeredKey |-> IF r.lastTriggeredKey # NoKey
                          THEN JValue("string", r.lastTriggeredKey)
                          ELSE Undefined,
     nextSnoozeAt |-> IF r.nextSnoozeAt # 0
                      THEN JValue("number", r.nextSnoozeAt) ELSE Undefined]

\* JSON.stringify(reminders) of a serialization that loses nextSnoozeAt
Stringify_NoSnooze(rs) ==
    [raw |-> "json",
     doc |-> JArray([i \in 1..Len(rs) |->
                JObject([ToJson(rs[i]) EXCEPT !.nextSnoozeAt = Undefined])])]

\* JSON.stringify(reminders), as the item setItem stores
Stringify(rs) ==
    JsonText(JArray([i \in 1..Len(rs) |-> JObject(ToJson(rs[i]))]))

TypeOf(item, k) == item.fields[k].type

IsRepeatOption(v) == v \in RepeatOptions

IsReminderArray(value) ==
    /\ value.kind = "array"
    /\ \A i \in 1..Len(value.items) :
        LET item == value.items[i] IN
        /\ item.kind = "object"
        /\ TypeOf(item, "id") = "string"
        /\ TypeOf(item, "title") = "string"
        /\ TypeOf(item, "time") = "string"
        /\ TypeOf(item, "enabled") = "boolean"
        /\ TypeOf(item, "repeat") = "string"
        /\ IsRepeatOption(item.fields.repeat.v)

\* a parsed element read as a Reminder
FromJson(item) ==
    LET f == item.fields IN
    [id |-> f.id.v, title |-> f.title.v, time |-> f.time.v,
     enabled |-> f.enabled.v, repeat |-> f.repeat.v,
     daysOfWeek |-> IF f.daysOfWeek.type # "undefined"
                    THEN <<f.daysOfWeek.v>> ELSE NoDays,
     lastTriggeredKey |-> IF f.lastTriggeredKey.type # "undefined"
                          THEN f.lastTriggeredKey.v ELSE NoKey,
     nextSnoozeAt |-> IF f.nextSnoozeAt.type # "undefined"
                      THEN f.nextSnoozeAt.v ELSE 0]

RECURSIVE WellFormedOnly(_)
WellFormedOnly(items) ==
    IF items = <<>> THEN <<>>
    ELSE IF IsReminderArray(JArray(<<Head(items)>>))
        THEN <<FromJson(Head(items))>> \o WellFormedOnly(Tail(items))
    ELSE WellFormedOnly(Tail(items))

\* a load effect that keeps the well-formed elements of a stored array
LoadReminders_Salvage(item) ==
    IF item.raw # "json" \/ item.doc.kind # "array" THEN <<>>
    ELSE WellFormedOnly(item.doc.items)

\* the load effect: the list it hands to setReminders; the list stays []
\* when the item is missing or empty, when JSON.parse throws and when the
\* validation fails
LoadReminders(item) ==
    IF item.raw # "json" THEN <<>>
    ELSE IF IsReminderArray(item.doc)
        THEN [i \in 1..Len(item.doc.items) |-> FromJson(item.doc.items[i])]
    ELSE <<>>

\* stored values a visit may find: reminders an earlier visit left, and
\* values that are not a list of reminders
\* the stored reminders are set for the minute of the first tick of the
\* first visit
StoredTime == CurrentTime(FirstVisit + Interval)

StoredOneShot == ToJson(NewReminder(11, "Old", StoredTime, TRUE, "none", {}))

StoredWeekly ==
    ToJson(NewReminder(12, "Old", StoredTime, TRUE, "weekly", {4}))

StoredDaily == ToJson(NewReminder(13, "Old", StoredTime, TRUE, "daily", {}))

Without(fields, k) == [fields EXCEPT ![k] = Undefined]

With(fields, k, value) == [fields EXCEPT ![k] = value]

\* a reminder for another minute that an earlier visit triggered and
\* snoozed: its snooze is due when the first visit begins
StoredSnoozed ==
    With(With(ToJson(NewReminder(14, "Old", (StoredTime + 1) % DayLen, TRUE,
                                 "daily", {})),
              "lastTriggeredKey", JValue("string", CurrentKey(0))),
         "nextSnoozeAt", JValue("number", FirstVisit))

StoredSamples ==
    << NoItem, EmptyItem, Unparsable,
       JsonText(JOther("null")), JsonText(JOther("number")),
       JsonText(JOther("object")),
       JsonText(JArray(<<>>)),
       JsonText(JArray(<<JObject(StoredOneShot)>>)),
       JsonText(JArray(<<JObject(Without(StoredWeekly, "daysOfWeek"))>>)),
       JsonText(JArray(<<JObject(With(StoredDaily, "daysOfWeek",
                                      JValue("object", {4})))>>)),
       JsonText(JArray(<<JNumber>>)),
       JsonText(JArray(<<JObject(StoredOneShot), JNull>>)),
       JsonText(JArray(<<JObject(StoredOneShot),
                         JObject(Without(StoredDaily, "id"))>>)),
       JsonText(JArray(<<JObject(With(StoredDaily, "enabled",
                                      JValue("string", "true"))),
                         JObject(StoredOneShot)>>)),
       JsonText(JArray(<<JObject(StoredOneShot),
                         JObject(With(StoredDaily, "repeat",
                                      JValue("string", "monthly")))>>)),
       JsonText(JArray(<<JObject(StoredSnoozed), JObject(StoredDaily)>>)) >>

\* ----------------------------------------------------------------- alarm
AlarmInit ==
    [isPlaying |-> FALSE, context |-> "none", pending |-> 0,
     oscillator |-> FALSE, gainNode |-> FALSE, patternIntervalId |-> FALSE,
     liveOsc |-> 0, liveTimers |-> 0]

\* the part of startAlarm after `await ensureContext()`
StartBody(a) ==
    [a EXCEPT !.oscillator = TRUE, !.gainNode = TRUE,
              !.patternIntervalId = TRUE,
              !.liveOsc = @ + 1, !.liveTimers = @ + 1,
              !.isPlaying = TRUE]

\* startAlarm as called from a render in which isPlaying was `seen`;
\* a context created here starts in state `fresh`
StartAlarm(a, seen, fresh) ==
    IF seen THEN a
    ELSE IF a.context = "none" /\ ~audioSupported THEN a
    ELSE LET c == IF a.context = "none" THEN fresh ELSE a.context
             b == [a EXCEPT !.context = c]
         IN  IF c = "suspended" THEN [b EXCEPT !.pending = @ + 1]
             ELSE StartBody(b)

RECURSIVE StartAlarmTimes(_, _, _, _)
StartAlarmTimes(a, seen, fresh, n) ==
    IF n = 0 THEN a
    ELSE StartAlarmTimes(StartAlarm(a, seen, fresh), seen, fresh, n - 1)

StopAlarm(a) ==
    [a EXCEPT !.patternIntervalId = FALSE,
              !.liveTimers = IF a.patternIntervalId THEN @ - 1 ELSE @,
              !.oscillator = FALSE,
              !.liveOsc = IF a.oscillator THEN @ - 1 ELSE @,
              !.gainNode = FALSE,
              !.isPlaying = FALSE]

\* the cleanup of the hook's effect: stopAlarm, then close() of the context
\* if there is one; a closed context renders none of its nodes
Cleanup(a) ==
    [StopAlarm(a) EXCEPT !.context = IF @ = "none" THEN "none" ELSE "closed",
                         !.liveOsc = 0]

\* ------------------------------------------------------------- scheduler
\* SchedulerLoop without the `break` after triggerReminder
RECURSIVE SchedulerLoop_NoBreak(_, _, _)
SchedulerLoop_NoBreak(rs, i, t) ==
    IF i > Len(rs) THEN <<>>
    ELSE LET r == rs[i]
             rest == SchedulerLoop_NoBreak(rs, i + 1, t)
         IN
        IF ~r.enabled THEN rest
        ELSE IF r.nextSnoozeAt # 0 /\ t >= r.nextSnoozeAt THEN <<r>> \o rest
        ELSE IF r.time # CurrentTime(t) THEN rest
        ELSE IF r.lastTriggeredKey = CurrentKey(t) THEN rest
        ELSE IF r.repeat = "weekly"
                /\ (r.daysOfWeek = <<>> \/ Dow(t) \notin r.daysOfWeek[1])
            THEN rest
        ELSE <<r>> \o rest

\* SchedulerLoop without `if (!r.enabled) continue`
RECURSIVE SchedulerLoop_NoEnabledCheck(_, _, _)
SchedulerLoop_NoEnabledCheck(rs, i, t) ==
    IF i > Len(rs) THEN <<>>
    ELSE LET r == rs[i] IN
        IF r.nextSnoozeAt # 0 /\ t >= r.nextSnoozeAt THEN <<r>>
        ELSE IF r.time # CurrentTime(t)
            THEN SchedulerLoop_NoEnabledCheck(rs, i + 1, t)
        ELSE IF r.lastTriggeredKey = CurrentKey(t)
            THEN SchedulerLoop_NoEnabledCheck(rs, i + 1, t)
        ELSE IF r.repeat = "weekly"
                /\ (r.daysOfWeek = <<>> \/ Dow(t) \notin r.daysOfWeek[1])
            THEN SchedulerLoop_NoEnabledCheck(rs, i + 1, t)
        ELSE <<r>>

\* SchedulerLoop without the weekly filter
RECURSIVE SchedulerLoop_NoWeeklyFilter(_, _, _)
SchedulerLoop_NoWeeklyFilter(rs, i, t) ==
    IF i > Len(rs) THEN <<>>
    ELSE LET r == rs[i] IN
        IF ~r.enabled THEN SchedulerLoop_NoWeeklyFilter(rs, i + 1, t)
        ELSE IF r.nextSnoozeAt # 0 /\ t >= r.nextSnoozeAt THEN <<r>>
        ELSE IF r.time # CurrentTime(t)
            THEN SchedulerLoop_NoWeeklyFilter(rs, i + 1, t)
        ELSE IF r.lastTriggeredKey = CurrentKey(t)
            THEN SchedulerLoop_NoWeeklyFilter(rs, i + 1, t)
        ELSE <<r>>

\* the for loop of the interval callback: the reminders triggerReminder is
\* called with, in order
RECURSIVE SchedulerLoop(_, _, _)
SchedulerLoop(rs, i, t) ==
    IF i > Len(rs) THEN <<>>
    ELSE LET r == rs[i] IN
        IF ~r.enabled THEN SchedulerLoop(rs, i + 1, t)
        ELSE IF r.nextSnoozeAt # 0 /\ t >= r.nextSnoozeAt THEN <<r>>
        ELSE IF r.time # CurrentTime(t) THEN SchedulerLoop(rs, i + 1, t)
        ELSE IF r.lastTriggeredKey = CurrentKey(t)
            THEN SchedulerLoop(rs, i + 1, t)
        ELSE IF r.repeat = "weekly"
                /\ (r.daysOfWeek = NoDays \/ Dow(t) \notin r.daysOfWeek[1])
            THEN SchedulerLoop(rs, i + 1, t)
        ELSE <<r>>

\* triggerReminder's updater without the auto-disable of repeat = none
TriggerReminder_KeepsEnabled(rs, id, currentKey) ==
    [i \in 1..Len(rs) |->
        IF rs[i].id # id THEN rs[i]
        ELSE [rs[i] EXCEPT !.lastTriggeredKey = currentKey]]

\* the updater triggerReminder hands to setReminders
TriggerReminder(rs, id, currentKey) ==
    [i \in 1..Len(rs) |->
        IF rs[i].id # id THEN rs[i]
        ELSE [rs[i] EXCEPT !.lastTriggeredKey = currentKey,
                           !.enabled = IF rs[i].repeat = "none" THEN FALSE
                                       ELSE @]]

RECURSIVE TriggerAll(_, _, _)
TriggerAll(rs, rems, currentKey) ==
    IF rems = <<>> THEN rs
    ELSE TriggerAll(TriggerReminder(rs, Head(rems).id, currentKey),
                    Tail(rems), currentKey)

\* the scheduler effect depends on [reminders, triggerReminder]; triggerReminder
\* is rebuilt when isPlaying changes: either restarts the interval
Rearm(remindersSet, a) ==
    IF remindersSet \/ a.isPlaying # alarm.isPlaying THEN now + Interval
    ELSE timerDue

\* ----------------------------------------------------------- air quality
\* A concentration is a whole number of hundredths of a microgram per cubic
\* metre.  A value that may be undefined is a sequence: <<>> is undefined
\* (or null), <<v>> is v.  The arithmetic is exact, where the code computes
\* in doubles.
Breakpoint(Clow, Chigh, Ilow, Ihigh) ==
    [Clow |-> Clow, Chigh |-> Chigh, Ilow |-> Ilow, Ihigh |-> Ihigh]

UsPm25Breaks ==
    << Breakpoint(0, 1200, 0, 50), Breakpoint(1210, 3540, 51, 100),
       Breakpoint(3550, 5540, 101, 150), Breakpoint(5550, 15040, 151, 200),
       Breakpoint(15050, 25040, 201, 300), Breakpoint(25050, 35040, 301, 400),
       Breakpoint(35050, 50040, 401, 500) >>

UsPm10Breaks ==
    << Breakpoint(0, 5400, 0, 50), Breakpoint(5500, 15400, 51, 100),
       Breakpoint(15500, 25400, 101, 150), Breakpoint(25500, 35400, 151, 200),
       Breakpoint(35500, 42400, 201, 300), Breakpoint(42500, 50400, 301, 400),
       Breakpoint(50500, 60400, 401, 500) >>

IndiaPm25Breaks ==
    << Breakpoint(0, 3000, 0, 50), Breakpoint(3100, 6000, 51, 100),
       Breakpoint(6100, 9000, 101, 200), Breakpoint(9100, 12000, 201, 300),
       Breakpoint(12100, 25000, 301, 400), Breakpoint(25010, 50000, 401, 500) >>

IndiaPm10Breaks ==
    << Breakpoint(0, 5000, 0, 50), Breakpoint(5100, 10000, 51, 100),
       Breakpoint(10100, 25000, 101, 200), Breakpoint(25100, 35000, 201, 300),
       Breakpoint(35100, 43000, 301, 400), Breakpoint(43100, 50000, 401, 500) >>

\* Math.round(n / d) for n >= 0 and d > 0: halves go up
Round(n, d) == (2 * n + d) \div (2 * d)

\* computeSubIndex with Math.floor for Math.round
RECURSIVE ComputeSubIndex_Floor(_, _)
ComputeSubIndex_Floor(Cp, breakpoints) ==
    IF breakpoints = <<>> THEN <<>>
    ELSE LET bp == Head(breakpoints) IN
        IF Cp >= bp.Clow /\ Cp <= bp.Chigh
        THEN <<((bp.Ihigh - bp.Ilow) * (Cp - bp.Clow)
                    + bp.Ilow * (bp.Chigh - bp.Clow))
                \div (bp.Chigh - bp.Clow)>>
        ELSE ComputeSubIndex_Floor(Cp, Tail(breakpoints))

RECURSIVE ComputeSubIndex(_, _)
ComputeSubIndex(Cp, breakpoints) ==
    IF breakpoints = <<>> THEN <<>>
    ELSE LET bp == Head(breakpoints) IN
        IF Cp >= bp.Clow /\ Cp <= bp.Chigh
        THEN <<Round((bp.Ihigh - bp.Ilow) * (Cp - bp.Clow)
                        + bp.Ilow * (bp.Chigh - bp.Clow),
                     bp.Chigh - bp.Clow)>>
        ELSE ComputeSubIndex(Cp, Tail(breakpoints))

\* if (typeof pm === "number") { const s = computeSubIndex(pm, breaks); ... }
SubIndex(pm, breakpoints) ==
    IF pm = <<>> THEN <<>> ELSE ComputeSubIndex(pm[1], breakpoints)

\* Math.max(...subIdx)
MaxOf(subIdx) ==
    CHOOSE m \in Range(subIdx) : \A x \in Range(subIdx) : x <= m

\* usAqiFromComponents that clamps a concentration above the table to 500
UsAqiFromComponents_Clamps(components) ==
    LET clamp(pm, breakpoints) ==
            IF pm = <<>> THEN <<>>
            ELSE IF pm[1] > breakpoints[Len(breakpoints)].Chigh THEN <<500>>
            ELSE ComputeSubIndex(pm[1], breakpoints)
        subIdx == clamp(components.pm2_5, UsPm25Breaks)
                    \o clamp(components.pm10, UsPm10Breaks)
    IN  IF Len(subIdx) = 0 THEN <<>> ELSE <<MaxOf(subIdx)>>

UsAqiFromComponents(components) ==
    LET subIdx == SubIndex(components.pm2_5, UsPm25Breaks)
                    \o SubIndex(components.pm10, UsPm10Breaks)
    IN  IF Len(subIdx) = 0 THEN <<>> ELSE <<MaxOf(subIdx)>>

IndiaAqiFromComponents(components) ==
    LET subIdx == SubIndex(components.pm2_5, IndiaPm25Breaks)
                    \o SubIndex(components.pm10, IndiaPm10Breaks)
    IN  IF Len(subIdx) = 0 THEN <<>> ELSE <<MaxOf(subIdx)>>

\* labelForAqi that reads every index on the US bands
LabelForAqi_UsBands(val, isIndia) ==
    IF val = <<>> THEN "-"
    ELSE IF val[1] <= 50 THEN "Good"
    ELSE IF val[1] <= 100 THEN "Moderate"
    ELSE IF val[1] <= 150 THEN "Unhealthy for Sensitive Groups"
    ELSE IF val[1] <= 200 THEN "Unhealthy"
    ELSE IF val[1] <= 300 THEN "Very Unhealthy"
    ELSE "Hazardous"

LabelForAqi(val, isIndia) ==
    IF val = <<>> THEN "-"
    ELSE IF isIndia THEN
        IF val[1] <= 50 THEN "Good"
        ELSE IF val[1] <= 100 THEN "Satisfactory"
        ELSE IF val[1] <= 200 THEN "Moderate"
        ELSE IF val[1] <= 300 THEN "Poor"
        ELSE IF val[1] <= 400 THEN "Very Poor"
        ELSE "Severe"
    ELSE
        IF val[1] <= 50 THEN "Good"
        ELSE IF val[1] <= 100 THEN "Moderate"
        ELSE IF val[1] <= 150 THEN "Unhealthy for Sensitive Groups"
        ELSE IF val[1] <= 200 THEN "Unhealthy"
        ELSE IF val[1] <= 300 THEN "Very Unhealthy"
        ELSE "Hazardous"

IsIndia(countryCode) == countryCode = "IN"

DefaultCategory == [label |-> "-", aqi |-> <<>>, aqiType |-> "US"]

\* the useMemo that derives the category from air and country
Category(a, countryCode) ==
    IF a = <<>> THEN DefaultCategory
    ELSE LET isIndia == IsIndia(countryCode)
             aqi == IF isIndia THEN IndiaAqiFromComponents(a[1])
                    ELSE UsAqiFromComponents(a[1])
         IN  [label |-> LabelForAqi(aqi, isIndia), aqi |-> aqi,
              aqiType |-> IF isIndia THEN "India" ELSE "US"]

\* the values of `s` in the function the useMemo calls
NoSub == [pm2_5 |-> <<>>, pm10 |-> <<>>]

SubIndices(a, countryCode) ==
    IF a = <<>> THEN NoSub
    ELSE IF IsIndia(countryCode)
        THEN [pm2_5 |-> SubIndex(a[1].pm2_5, IndiaPm25Breaks),
              pm10 |-> SubIndex(a[1].pm10, IndiaPm10Breaks)]
    ELSE [pm2_5 |-> SubIndex(a[1].pm2_5, UsPm25Breaks),
          pm10 |-> SubIndex(a[1].pm10, UsPm10Breaks)]

\* {category.aqi ?? "-"}
ShownAqi(cat) == IF cat.aqi = <<>> THEN "-" ELSE ToString(cat.aqi[1])

\* what the services answer with: country codes, and concentrations at the
\* ends of every breakpoint interval, between them, and just above them
CountryCodes == {"IN", "US", "in", ""}

Probes(breakpoints) ==
    UNION { {bp.Clow + ((bp.Chigh - bp.Clow) * j) \div ProbeParts :
                j \in 0..ProbeParts} \cup {bp.Chigh + 5} :
            bp \in Range(breakpoints) }

\* 25.90 and 43.20 have the US sub-indices 80 and 40
Pm25Values == Probes(UsPm25Breaks) \cup Probes(IndiaPm25Breaks) \cup {2590}

Pm10Values == Probes(UsPm10Breaks) \cup Probes(IndiaPm10Breaks) \cup {4320}

Optional(values) == {<<>>} \cup {<<v>> : v \in values}

\* --------------------------------------------------------------- actions
InitAir ==
    /\ country = ""
    /\ air = <<>>
    /\ sub = NoSub
    /\ category = DefaultCategory

\* no mount effect has run
InitEffects ==
    /\ queued = <<>>
    /\ effectPass = 0

\* the Dashboard's symptom checker before any input
InitTriage ==
    /\ symptomInput = ""
    /\ analysisResult = <<>>
    /\ toast = ""
    /\ outcome = <<>>
    /\ fetches = 0

Init ==
    /\ now = 0
    /\ timerDue = Interval
    /\ reminders = <<>>
    /\ activeReminderId = 0
    /\ nextId = 1
    /\ alarm = AlarmInit
    /\ audioSupported \in BOOLEAN
    /\ fired = <<>>
    /\ sinceTick = -1
    /\ tickGap = -1
    /\ userOps = 0
    /\ lastOp = "mount"
    /\ mounted = TRUE
    /\ storage = Stringify(<<>>)
    /\ loaded = NoItem
    /\ InitAir
    /\ InitEffects
    /\ InitTriage

\* a click of the user on the control that runs handler op: not a tick, and
\* counted
Click(op) ==
    /\ mounted
    /\ userOps < MaxUserOps
    /\ userOps' = userOps + 1
    /\ lastOp' = op
    /\ fired' = <<>>
    /\ tickGap' = -1
    /\ UNCHANGED <<now, audioSupported, sinceTick, airVars, mountVars,
                   triageVars>>

\* the save effect, which runs after the render that follows setReminders
Saved ==
    /\ storage' = Stringify(reminders')
    /\ loaded' = NoItem
    /\ UNCHANGED mounted

NotSaved ==
    /\ loaded' = NoItem
    /\ UNCHANGED <<mounted, storage>>

\* time passes; the interval fires when it is due
Advance ==
    /\ now < MaxNow
    /\ mounted => now < timerDue
    /\ now' = now + 1
    /\ lastOp' = "clock"
    /\ sinceTick' = IF sinceTick < 0 THEN sinceTick
                    ELSE IF sinceTick > Interval THEN sinceTick
                    ELSE sinceTick + 1
    /\ fired' = <<>>
    /\ tickGap' = -1
    /\ NotSaved
    /\ UNCHANGED <<timerDue, reminders, activeReminderId, nextId, alarm,
                   audioSupported, userOps, airVars, mountVars,
                   triageVars>>

AddReminder ==
    \E title \in FormTitles, time \in FormTimes, enabled \in FormEnabled,
       repeat \in RepeatOptions, weekDays \in SUBSET FormDays :
        /\ Click("addReminder")
        /\ nextId <= MaxReminders
        /\ repeat # "weekly" => weekDays = {}
        /\ title # ""
        /\ reminders' = Append(reminders,
                NewReminder(nextId, title, time, enabled, repeat, weekDays))
        /\ nextId' = nextId + 1
        /\ timerDue' = Rearm(TRUE, alarm)
        /\ Saved
        /\ UNCHANGED <<activeReminderId, alarm>>

RemoveReminder ==
    \E id \in Ids(reminders) :
        /\ Click("removeReminder")
        /\ reminders' = FilterOut(reminders, id)
        /\ timerDue' = Rearm(TRUE, alarm)
        /\ Saved
        /\ UNCHANGED <<activeReminderId, nextId, alarm>>

ToggleReminder ==
    \E id \in Ids(reminders) :
        /\ Click("toggleReminder")
        /\ reminders' = [i \in 1..Len(reminders) |->
                IF reminders[i].id = id
                THEN [reminders[i] EXCEPT !.enabled = ~@]
                ELSE reminders[i]]
        /\ timerDue' = Rearm(TRUE, alarm)
        /\ Saved
        /\ UNCHANGED <<activeReminderId, nextId, alarm>>

\* the interval callback, were a startAlarm that fails to end
\* triggerReminder before its setReminders
Tick_StartThrows ==
    /\ mounted
    /\ now = timerDue
    /\ LET rems == IF Len(reminders) = 0 THEN <<>>
                   ELSE SchedulerLoop(reminders, 1, now)
       IN
        /\ \E fresh \in {"suspended", "running"} :
            /\ (alarm.context # "none" \/ rems = <<>>) => fresh = "running"
            /\ alarm' = StartAlarmTimes(alarm, alarm.isPlaying, fresh,
                                        Len(rems))
        /\ alarm'.pending <= MaxPending
        /\ fired' = rems
        /\ reminders' = IF audioSupported
                        THEN TriggerAll(reminders, rems, CurrentKey(now))
                        ELSE reminders
        /\ activeReminderId' = IF rems = <<>> THEN activeReminderId
                               ELSE rems[Len(rems)].id
    /\ timerDue' = now + Interval
    /\ tickGap' = IF sinceTick < 0 THEN 0 ELSE sinceTick
    /\ sinceTick' = 0
    /\ lastOp' = "tick"
    /\ IF fired' = <<>> THEN NotSaved ELSE Saved
    /\ UNCHANGED <<now, nextId, audioSupported, userOps, airVars, mountVars,
                   triageVars>>

\* the interval callback
Tick ==
    /\ mounted
    /\ now = timerDue
    /\ LET rems == IF Len(reminders) = 0 THEN <<>>
                   ELSE SchedulerLoop(reminders, 1, now)
       IN
        /\ \E fresh \in {"suspended", "running"} :
            /\ (alarm.context # "none" \/ rems = <<>>) => fresh = "running"
            /\ alarm' = StartAlarmTimes(alarm, alarm.isPlaying, fresh,
                                        Len(rems))
        /\ alarm'.pending <= MaxPending
        /\ fired' = rems
        /\ reminders' = TriggerAll(reminders, rems, CurrentKey(now))
        /\ activeReminderId' = IF rems = <<>> THEN activeReminderId
                               ELSE rems[Len(rems)].id
    /\ timerDue' = now + Interval
    /\ tickGap' = IF sinceTick < 0 THEN 0 ELSE sinceTick
    /\ sinceTick' = 0
    /\ lastOp' = "tick"
    /\ IF fired' = <<>> THEN NotSaved ELSE Saved
    /\ UNCHANGED <<now, nextId, audioSupported, userOps, airVars, mountVars,
                   triageVars>>

\* stopActiveAlarm that also drops the snoozes of the list
StopActiveAlarm_ClearsSnooze ==
    /\ Click("stopActiveAlarm")
    /\ activeReminderId # 0
    /\ alarm' = StopAlarm(alarm)
    /\ activeReminderId' = 0
    /\ reminders' = [i \in 1..Len(reminders) |->
            [reminders[i] EXCEPT !.nextSnoozeAt = 0]]
    /\ timerDue' = Rearm(FALSE, alarm')
    /\ Saved
    /\ UNCHANGED nextId

\* the Stop button of the "Alarm active" box
StopActiveAlarm ==
    /\ Click("stopActiveAlarm")
    /\ activeReminderId # 0
    /\ alarm' = StopAlarm(alarm)
    /\ activeReminderId' = 0
    /\ timerDue' = Rearm(FALSE, alarm')
    /\ NotSaved
    /\ UNCHANGED <<reminders, nextId>>

\* the Snooze 5m / 10m / 15m buttons of the "Alarm active" box
SnoozeActive ==
    \E minutes \in SnoozeClicks \cap SnoozeChoices :
        /\ Click("snoozeActive")
        /\ activeReminderId # 0
        /\ reminders' = [i \in 1..Len(reminders) |->
                IF reminders[i].id = activeReminderId
                THEN [reminders[i] EXCEPT
                        !.nextSnoozeAt = now + minutes * MinuteLen]
                ELSE reminders[i]]
        /\ alarm' = StopAlarm(alarm)
        /\ activeReminderId' = 0
        /\ timerDue' = Rearm(TRUE, alarm')
        /\ Saved
        /\ UNCHANGED nextId

\* the Test Alarm button (disabled while isPlaying)
TestAlarm ==
    /\ Click("startAlarm")
    /\ ~alarm.isPlaying
    /\ \E fresh \in {"suspended", "running"} :
        /\ alarm.context # "none" => fresh = "running"
        /\ alarm' = StartAlarm(alarm, alarm.isPlaying, fresh)
    /\ alarm'.pending <= MaxPending
    /\ timerDue' = Rearm(FALSE, alarm')
    /\ NotSaved
    /\ UNCHANGED <<reminders, activeReminderId, nextId>>

\* the Stop Alarm button (disabled unless isPlaying)
StopAlarmButton ==
    /\ Click("stopAlarm")
    /\ alarm.isPlaying
    /\ alarm' = StopAlarm(alarm)
    /\ timerDue' = Rearm(FALSE, alarm')
    /\ NotSaved
    /\ UNCHANGED <<reminders, activeReminderId, nextId>>

\* context.resume() resolves: every startAlarm waiting on it runs to its end
ResumeResolved ==
    /\ mounted
    /\ alarm.context = "suspended"
    /\ alarm.pending > 0
    /\ alarm' = [alarm EXCEPT
            !.context = "running", !.pending = 0,
            !.oscillator = TRUE, !.gainNode = TRUE,
            !.patternIntervalId = TRUE,
            !.liveOsc = @ + alarm.pending,
            !.liveTimers = @ + alarm.pending,
            !.isPlaying = TRUE]
    /\ timerDue' = Rearm(FALSE, alarm')
    /\ fired' = <<>>
    /\ tickGap' = -1
    /\ lastOp' = "resume"
    /\ NotSaved
    /\ UNCHANGED <<now, reminders, activeReminderId, nextId, audioSupported,
                   sinceTick, userOps, airVars, mountVars,
                   triageVars>>

\* the page is opened: a fresh component and a fresh hook; the load effect,
\* the save effect (which stores [] before the loaded list is rendered and
\* the loaded list after) and the scheduler effect run.  A pattern timer
\* that an earlier visit left running goes on running.  The model opens the
\* page only when no startAlarm of an earlier visit is still waiting.
Mount ==
    /\ ~mounted
    /\ alarm.pending = 0
    /\ mounted' = TRUE
    /\ loaded' = storage
    /\ reminders' = LoadReminders(storage)
    /\ storage' = Stringify(reminders')
    /\ activeReminderId' = 0
    /\ alarm' = [AlarmInit EXCEPT !.liveTimers = alarm.liveTimers]
    /\ timerDue' = now + Interval
    /\ fired' = <<>>
    /\ sinceTick' = -1
    /\ tickGap' = -1
    /\ lastOp' = "mount"
    /\ UNCHANGED <<now, nextId, audioSupported, userOps, airVars, mountVars,
                   triageVars>>

\* the user leaves the page: the component's state is dropped, the
\* scheduler effect clears its interval and the hook's cleanup runs
Unmount ==
    /\ Click("unmount")
    /\ mounted' = FALSE
    /\ loaded' = NoItem
    /\ reminders' = <<>>
    /\ activeReminderId' = 0
    /\ alarm' = Cleanup(alarm)
    /\ timerDue' = 0
    /\ UNCHANGED <<nextId, storage>>

\* the resume() of a context that was closed while startAlarm waited for it
\* settles: if it resolves, each waiting startAlarm runs to its end on the
\* closed context (its oscillator renders nothing, its pattern timer runs);
\* if it rejects, each waiting startAlarm ends there
ResumeAfterClose ==
    /\ ~mounted
    /\ alarm.context = "closed"
    /\ alarm.pending > 0
    /\ \E settled \in {"resolved", "rejected"} :
        alarm' = IF settled = "rejected" THEN [alarm EXCEPT !.pending = 0]
                 ELSE [alarm EXCEPT
                        !.pending = 0,
                        !.oscillator = TRUE, !.gainNode = TRUE,
                        !.patternIntervalId = TRUE,
                        !.liveTimers = @ + alarm.pending]
    /\ fired' = <<>>
    /\ tickGap' = -1
    /\ lastOp' = "resume"
    /\ NotSaved
    /\ UNCHANGED <<now, timerDue, reminders, activeReminderId, nextId,
                   audioSupported, sinceTick, userOps, airVars, mountVars,
                   triageVars>>

Next ==
    \/ Advance
    \/ AddReminder
    \/ RemoveReminder
    \/ ToggleReminder
    \/ Tick
    \/ StopActiveAlarm
    \/ SnoozeActive
    \/ TestAlarm
    \/ StopAlarmButton
    \/ ResumeResolved

Spec == Init /\ [][Next]_vars

\* ---------------------------------------------------- air-quality page
\* requestLocation and fetchAQIByCityName begin with setAir(null)
ClearAir ==
    /\ air # <<>>
    /\ air' = <<>>
    /\ sub' = SubIndices(air', country)
    /\ category' = Category(air', country)
    /\ UNCHANGED <<country, pageVars, mountVars, triageVars>>

\* fetchAQIByCoords succeeds: setCountry(countryCode), then setAir(...)
FetchAir ==
    /\ air = <<>>
    /\ \E countryCode \in CountryCodes, pm25 \in Optional(Pm25Values),
          pm10 \in Optional(Pm10Values) :
        /\ country' = countryCode
        /\ air' = <<[pm2_5 |-> pm25, pm10 |-> pm10]>>
        /\ sub' = SubIndices(air', country')
        /\ category' = Category(air', country')
        /\ UNCHANGED <<pageVars, mountVars, triageVars>>

InitAqi == Init /\ audioSupported

NextAqi ==
    \/ ClearAir
    \/ FetchAir

SpecAqi == InitAqi /\ [][NextAqi]_vars

\* visits of the page, the first of which finds any stored value
InitSessions ==
    /\ now = FirstVisit
    /\ timerDue = 0
    /\ reminders = <<>>
    /\ activeReminderId = 0
    /\ nextId = 1
    /\ alarm = AlarmInit
    /\ audioSupported \in BOOLEAN
    /\ fired = <<>>
    /\ sinceTick = -1
    /\ tickGap = -1
    /\ userOps = 0
    /\ lastOp = "start"
    /\ mounted = FALSE
    /\ \E i \in 1..Len(StoredSamples) : storage = StoredSamples[i]
    /\ loaded = NoItem
    /\ InitAir
    /\ InitEffects
    /\ InitTriage

NextSessions ==
    \/ Next
    \/ Mount
    \/ Unmount
    \/ ResumeAfterClose

SpecSessions == InitSessions /\ [][NextSessions]_vars

\* ------------------------------------------------------------ properties
\* what the scheduler's contract calls a due snooze and a fresh time match
SnoozeDue(r, t) == r.nextSnoozeAt # 0 /\ t >= r.nextSnoozeAt

TimeMatch(r, t) ==
    /\ r.time = CurrentTime(t)
    /\ r.lastTriggeredKey # CurrentKey(t)
    /\ r.repeat = "weekly" =>
        (r.daysOfWeek # NoDays /\ Dow(t) \in r.daysOfWeek[1])

Qualifies(r, t) == r.enabled /\ (SnoozeDue(r, t) \/ TimeMatch(r, t))

FiredIds == {fired[k].id : k \in 1..Len(fired)}

\* the reminder list as the tick just run found it: a tick changes only the
\* reminders it triggers, and `fired` holds those as they were
PreTick ==
    [i \in 1..Len(reminders) |->
        IF reminders[i].id \in FiredIds
        THEN fired[CHOOSE k \in 1..Len(fired) : fired[k].id = reminders[i].id]
        ELSE reminders[i]]

Ticked == lastOp = "tick"

Current(id) == reminders[CHOOSE i \in 1..Len(reminders) : reminders[i].id = id]

\* C1: a tick triggers at most one reminder, namely the first one in list
\* order that qualifies (due snooze, or time match passing dedup and the
\* weekly filter); if none qualifies it triggers none.
C1_FirstMatchWins ==
    Ticked =>
        LET q == {i \in 1..Len(reminders) : Qualifies(PreTick[i], now)} IN
        IF q = {} THEN fired = <<>>
        ELSE fired = <<PreTick[CHOOSE i \in q : \A j \in q : i <= j]>>

\* two reminders qualified in the tick just run and one was triggered
C1_Witness ==
    /\ Ticked
    /\ Len(fired) = 1
    /\ Cardinality({i \in 1..Len(reminders) : Qualifies(PreTick[i], now)}) >= 2

\* C2: a reminder that was last triggered at date D and time T is not
\* triggered again by a tick whose date and HH:MM are still (D, T).
C2_OncePerMinute ==
    Ticked => \A k \in 1..Len(fired) :
        fired[k].lastTriggeredKey # CurrentKey(now)

\* C3: the trigger of a repeat = none reminder disables it; a disabled
\* repeat = none reminder is triggered by no tick, and only a click on its
\* toggle enables it again.
C3_OneShot ==
    [][ /\ lastOp' = "tick" =>
            \A k \in 1..Len(fired') :
                /\ fired'[k] \in Range(reminders)
                /\ fired'[k].enabled
                /\ fired'[k].repeat = "none" =>
                    \A j \in 1..Len(reminders') :
                        reminders'[j].id = fired'[k].id
                            => ~reminders'[j].enabled
        /\ \A i \in 1..Len(reminders) : \A j \in 1..Len(reminders') :
            (/\ reminders[i].id = reminders'[j].id
             /\ reminders[i].repeat = "none"
             /\ ~reminders[i].enabled
             /\ reminders'[j].enabled)
                => lastOp' = "toggleReminder"
      ]_vars

\* a repeat = none reminder that was triggered once is disabled, its time
\* comes round again with a fresh key, and the tick just run left it alone
C3_Witness ==
    /\ Ticked
    /\ fired = <<>>
    /\ \E i \in 1..Len(reminders) :
        /\ reminders[i].repeat = "none"
        /\ ~reminders[i].enabled
        /\ reminders[i].lastTriggeredKey # NoKey
        /\ TimeMatch(reminders[i], now)

\* C4 as stated: every trigger of a weekly reminder, by time match or by
\* snooze, happens on a weekday of its daysOfWeek.
C4_WeeklyAnyPath ==
    Ticked => \A k \in 1..Len(fired) :
        fired[k].repeat = "weekly" =>
            (fired[k].daysOfWeek # NoDays /\ Dow(now) \in fired[k].daysOfWeek[1])

\* C4 amended: every trigger of a weekly reminder that is not the firing of
\* a due snooze happens on a weekday of its daysOfWeek.
C4_WeeklyTimeMatch ==
    Ticked => \A k \in 1..Len(fired) :
        (fired[k].repeat = "weekly" /\ ~SnoozeDue(fired[k], now)) =>
            (fired[k].daysOfWeek # NoDays /\ Dow(now) \in fired[k].daysOfWeek[1])

\* an enabled weekly reminder whose time matched on a day outside its
\* daysOfWeek, with a fresh key and no due snooze, was left alone by the tick
C4_Witness ==
    /\ Ticked
    /\ fired = <<>>
    /\ \E i \in 1..Len(reminders) :
        /\ reminders[i].repeat = "weekly"
        /\ reminders[i].enabled
        /\ reminders[i].daysOfWeek # NoDays
        /\ reminders[i].daysOfWeek[1] # {}
        /\ reminders[i].time = CurrentTime(now)
        /\ reminders[i].lastTriggeredKey # CurrentKey(now)
        /\ reminders[i].lastTriggeredKey # NoKey
        /\ Dow(now) \notin reminders[i].daysOfWeek[1]

\* C5: when the tick finds an enabled reminder with a due snooze and another
\* enabled reminder with a fresh time match, it triggers a reminder whose
\* snooze is due, wherever the two stand in the list.
C5_SnoozePriority ==
    Ticked =>
        ((\E i, j \in 1..Len(reminders) :
            /\ i # j
            /\ PreTick[i].enabled /\ SnoozeDue(PreTick[i], now)
            /\ PreTick[j].enabled /\ ~SnoozeDue(PreTick[j], now)
            /\ TimeMatch(PreTick[j], now))
         => (Len(fired) = 1 /\ SnoozeDue(fired[1], now)))

\* C6: a reminder triggered through the snooze path has its nextSnoozeAt
\* cleared by that trigger.
C6_SnoozeConsumed ==
    Ticked => \A k \in 1..Len(fired) :
        SnoozeDue(fired[k], now) => Current(fired[k].id).nextSnoozeAt = 0

\* C7: Snooze on an active reminder of the list sets its nextSnoozeAt to
\* now + duration, stops the alarm and leaves that reminder enabled.
C7_SnoozePost ==
    [][ (lastOp' = "snoozeActive" /\ activeReminderId \in Ids(reminders)) =>
            \A j \in 1..Len(reminders') :
                reminders'[j].id = activeReminderId =>
                    /\ \E m \in SnoozeChoices :
                        reminders'[j].nextSnoozeAt = now + m * MinuteLen
                    /\ reminders'[j].enabled
                    /\ ~alarm'.isPlaying
                    /\ ~alarm'.oscillator
                    /\ ~alarm'.patternIntervalId
      ]_vars

\* C8: a tick triggers only reminders that are in the list, as the list is
\* at that tick, with enabled = true.
C8_DisabledNeverTriggered ==
    [][ lastOp' = "tick" =>
            \A k \in 1..Len(fired') :
                fired'[k] \in Range(reminders) /\ fired'[k].enabled
      ]_vars

\* a disabled reminder with a due snooze was left alone by the tick just run
C8_Witness ==
    /\ Ticked
    /\ fired = <<>>
    /\ \E i \in 1..Len(reminders) :
        ~reminders[i].enabled /\ SnoozeDue(reminders[i], now)

C10_FixedInterval ==
    Ticked => tickGap \in {0, Interval}

\* ------------------------------------------------ properties: persistence
\* a well-formed Reminder: string id, title and time, boolean enabled,
\* repeat one of none / daily / weekly
WellFormed(item) ==
    /\ item.kind = "object"
    /\ \A k \in {"id", "title", "time", "repeat"} :
        item.fields[k].type = "string"
    /\ item.fields["enabled"].type = "boolean"
    /\ item.fields["repeat"].v \in {"none", "daily", "weekly"}

Mounting == lastOp = "mount"

\* C11: when the stored value is valid JSON but not an array of well-formed
\* reminders, the list is empty after the load; no part of the stored
\* elements is loaded.
C11_FailClosed ==
    (/\ Mounting
     /\ loaded.raw = "json"
     /\ ~(/\ loaded.doc.kind = "array"
          /\ \A i \in 1..Len(loaded.doc.items) :
                WellFormed(loaded.doc.items[i])))
        => reminders = <<>>

\* the page was opened on a stored array that holds a well-formed reminder
\* and an element that is not one
C11_Witness ==
    /\ Mounting
    /\ loaded.raw = "json"
    /\ loaded.doc.kind = "array"
    /\ \E i, j \in 1..Len(loaded.doc.items) :
        WellFormed(loaded.doc.items[i]) /\ ~WellFormed(loaded.doc.items[j])
    /\ reminders = <<>>

C13_DaysIffWeekly ==
    \A i \in 1..Len(reminders) :
        (reminders[i].daysOfWeek # NoDays) <=> (reminders[i].repeat = "weekly")

\* ------------------------------------------------------ properties: alarm
\* C14: when audio is unavailable, so that the start of the alarm fails, a
\* tick that triggers a reminder still sets its lastTriggeredKey to the
\* current key, disables it if its repeat is none, sets the active marker to
\* it and leaves the next tick armed.
C14_BookkeepingSurvives ==
    [][(lastOp' = "tick" /\ ~audioSupported' /\ fired' # <<>>) =>
        /\ \A k \in 1..Len(fired') :
            /\ fired'[k] \in Range(reminders)
            /\ \E j \in 1..Len(reminders') :
                /\ reminders'[j].id = fired'[k].id
                /\ reminders'[j].lastTriggeredKey = CurrentKey(now')
                /\ fired'[k].repeat = "none" => ~reminders'[j].enabled
        /\ activeReminderId' = fired'[Len(fired')].id
        /\ alarm' = AlarmInit
        /\ timerDue' = now' + Interval]_vars

\* without audio, a tick has triggered a reminder while a reminder of the
\* list carries the key of an earlier trigger
C14_Witness ==
    /\ Ticked
    /\ ~audioSupported
    /\ fired # <<>>
    /\ fired[1].repeat = "none"
    /\ \E i \in 1..Len(reminders) :
        /\ reminders[i].lastTriggeredKey # NoKey
        /\ reminders[i].lastTriggeredKey # CurrentKey(now)

\* C15: at most one oscillator and one pattern timer are live at any time.
C15_SingleVoice == alarm.liveOsc <= 1 /\ alarm.liveTimers <= 1

StopStep(op) == op \in {"stopAlarm", "stopActiveAlarm", "snoozeActive"}

\* C16: when stopAlarm has run, no oscillator is running, no pattern timer
\* is armed and no startAlarm called before it is still on its way to start
\* one; stopAlarm on an alarm that is not playing changes nothing.
C16_StopSilences ==
    [][ StopStep(lastOp') =>
            /\ alarm'.liveOsc = 0
            /\ alarm'.liveTimers = 0
            /\ alarm'.pending = 0
            /\ (~alarm.isPlaying /\ ~alarm.oscillator
                    /\ ~alarm.patternIntervalId) => alarm' = alarm
      ]_vars

\* C17: once the page is torn down, no audio context is open and no
\* oscillator or pattern timer is live.
C17_TornDown ==
    ~mounted =>
        /\ alarm.context \in {"none", "closed"}
        /\ alarm.liveOsc = 0
        /\ alarm.liveTimers = 0

\* ------------------------------------------------ properties: air quality
Pollutants == {"pm2_5", "pm10"}

\* the breakpoint tables of a standard, by pollutant
TablesOf(standard) ==
    IF standard = "India"
    THEN [pm2_5 |-> IndiaPm25Breaks, pm10 |-> IndiaPm10Breaks]
    ELSE [pm2_5 |-> UsPm25Breaks, pm10 |-> UsPm10Breaks]

Within(c, bp) == bp.Clow <= c /\ c <= bp.Chigh

\* s is (Ihigh - Ilow) / (Chigh - Clow) * (c - Clow) + Ilow rounded to the
\* nearest integer, a half going up
Interpolates(bp, c, s) ==
    LET d == bp.Chigh - bp.Clow
        n == (bp.Ihigh - bp.Ilow) * (c - bp.Clow) + bp.Ilow * d
    IN  2 * d * s - d <= 2 * n /\ 2 * n < 2 * d * s + d

InSomeInterval(p) ==
    /\ air[1][p] # <<>>
    /\ \E bp \in Range(TablesOf(category.aqiType)[p]) :
        Within(air[1][p][1], bp)

\* C19: a pollutant has a sub-index exactly when its concentration is there
\* and lies in an interval of its table; the index is the greatest of the
\* sub-indices; with no sub-index the index is undefined and shown as "-"
\* with label "-", whereas index 0 is shown as 0 with label Good.
C19_MaxOfComputed ==
    /\ air = <<>> => category.aqi = <<>>
    /\ air # <<>> =>
        LET computed == {p \in Pollutants : InSomeInterval(p)} IN
        /\ \A p \in Pollutants : sub[p] # <<>> <=> p \in computed
        /\ IF computed = {} THEN category.aqi = <<>>
           ELSE /\ category.aqi # <<>>
                /\ \E p \in computed : category.aqi = sub[p]
                /\ \A p \in computed : sub[p][1] <= category.aqi[1]
    /\ category.aqi = <<>> =>
        ShownAqi(category) = "-" /\ category.label = "-"
    /\ category.aqi = <<0>> =>
        ShownAqi(category) = "0" /\ category.label = "Good"

\* PM2.5 lies above its table and PM10 is 0: the index is 0, not 500
C19_Witness ==
    /\ air # <<>>
    /\ air[1].pm2_5 # <<>>
    /\ sub.pm2_5 = <<>>
    /\ sub.pm10 = <<0>>
    /\ category.aqi = <<0>>
    /\ ShownAqi(category) = "0"

Band(upTo, label) == [upTo |-> upTo, label |-> label]

IndiaBands ==
    << Band(50, "Good"), Band(100, "Satisfactory"), Band(200, "Moderate"),
       Band(300, "Poor"), Band(400, "Very Poor") >>

UsBands ==
    << Band(50, "Good"), Band(100, "Moderate"),
       Band(150, "Unhealthy for Sensitive Groups"), Band(200, "Unhealthy"),
       Band(300, "Very Unhealthy") >>

BandLabel(bands, above, v) ==
    IF \E i \in 1..Len(bands) : v <= bands[i].upTo
    THEN bands[CHOOSE i \in 1..Len(bands) :
                /\ v <= bands[i].upTo
                /\ \A j \in 1..(i - 1) : v > bands[j].upTo].label
    ELSE above

\* C20: the India tables and bands are applied exactly when the country
\* code is "IN", the US tables and bands otherwise, and a defined index
\* gets the label of its band.
C20_StandardAndLabel ==
    air # <<>> =>
        LET india == country = "IN"
            tables == TablesOf(IF india THEN "India" ELSE "US")
        IN
        /\ category.aqiType = IF india THEN "India" ELSE "US"
        /\ \A p \in Pollutants :
            /\ sub[p] # <<>> =>
                \E bp \in Range(tables[p]) :
                    /\ air[1][p] # <<>>
                    /\ Within(air[1][p][1], bp)
                    /\ Interpolates(bp, air[1][p][1], sub[p][1])
            /\ sub[p] # <<>> => sub[p][1] <= category.aqi[1]
        /\ category.aqi # <<>> =>
            category.label =
                IF india THEN BandLabel(IndiaBands, "Severe", category.aqi[1])
                ELSE BandLabel(UsBands, "Hazardous", category.aqi[1])

\* under the US standard the sub-indices 80 and 40 give index 80, Moderate
C20_Witness ==
    /\ country # "IN"
    /\ sub.pm2_5 = <<80>>
    /\ sub.pm10 = <<40>>
    /\ category.aqi = <<80>>
    /\ category.label = "Moderate"
    /\ category.aqiType = "US"

\* ------------------------------------------- properties: reminders, again
\* C28: in every state the active marker, when it is set, is the id of a
\* reminder of the list.
C28_ActiveIsListed ==
    activeReminderId # 0 => activeReminderId \in Ids(reminders)

\* ----------------------------------------- properties: air quality, again
\* the highest Chigh of a table
TopOf(breakpoints) == breakpoints[Len(breakpoints)].Chigh

ValuesOf(p) == IF p = "pm2_5" THEN Pm25Values ELSE Pm10Values

\* C30: every concentration from 0 to the highest Chigh of the table applied
\* to it has a sub-index, and a lower concentration never has a greater
\* sub-index.
C30_NoGaps ==
    air # <<>> =>
        \A p \in Pollutants :
            LET table == TablesOf(category.aqiType)[p] IN
            (air[1][p] # <<>> /\ air[1][p][1] <= TopOf(table)) =>
                /\ sub[p] # <<>>
                /\ \A c \in ValuesOf(p) :
                    (c <= air[1][p][1] /\ ComputeSubIndex(c, table) # <<>>)
                        => ComputeSubIndex(c, table)[1] <= sub[p][1]

\* ------------------------------------------ properties: scheduler, again
\* an enabled reminder whose time is the current minute, that has not been
\* triggered in it and that passes the weekly filter
Eligible(r, t) == r.enabled /\ TimeMatch(r, t)

LastTickOfMinute(t) == UtcMinute(t + Interval) # UtcMinute(t)

\* C27: the last tick of a minute triggers the reminder that is the only
\* one eligible when it runs: no other reminder keeps it from being
\* triggered in that minute.
C27_NoStarvation ==
    (Ticked /\ LastTickOfMinute(now)) =>
        \A j \in 1..Len(reminders) :
            (/\ Eligible(PreTick[j], now)
             /\ \A i \in 1..Len(reminders) :
                    i # j => ~Eligible(PreTick[i], now))
                => PreTick[j].id \in FiredIds

\* --------------------------------------------- the mount, effect by effect
\* The steps Mount takes in one go, for what lies between them.  React runs
\* the effects of a commit in the order of their declaration: the load
\* effect, then the save effect; a development build may run them a second
\* time on the mount (the entry point that decides this is not part of the
\* sources, so both are possible).  The list handed to setReminders is
\* rendered afterwards, and that render runs the save effect again.
everythingElse ==
    <<now, timerDue, activeReminderId, nextId, alarm, audioSupported, fired,
      sinceTick, tickGap, userOps, airVars, triageVars>>

\* the first render of a visit: useState<Reminder[]>([])
FirstRender ==
    /\ ~mounted
    /\ mounted' = TRUE
    /\ reminders' = <<>>
    /\ queued' = <<>>
    /\ effectPass' = 0
    /\ loaded' = NoItem
    /\ lastOp' = "render"
    /\ UNCHANGED <<storage, everythingElse>>

\* the load effect; `loaded` keeps the item its first run of the visit read
LoadEffect ==
    /\ mounted
    /\ \/ lastOp = "render"
       \/ lastOp = "saveEffect" /\ effectPass = 1
    /\ effectPass' = effectPass + 1
    /\ loaded' = IF effectPass = 0 THEN storage ELSE loaded
    /\ queued' = IF storage.raw = "json" /\ IsReminderArray(storage.doc)
                 THEN Append(queued, LoadReminders(storage))
                 ELSE queued
    /\ lastOp' = "loadEffect"
    /\ UNCHANGED <<mounted, reminders, storage, everythingElse>>

\* the save effect, after the effects of the mount or after a render that
\* changed `reminders`
SaveEffect ==
    /\ mounted
    /\ lastOp \in {"loadEffect", "rerender"}
    /\ storage' = Stringify(reminders)
    /\ lastOp' = IF lastOp = "loadEffect" THEN "saveEffect" ELSE "idle"
    /\ UNCHANGED <<mounted, reminders, loaded, mountVars, everythingElse>>

\* the render that applies the queued setReminders calls: the last one wins
Rerender ==
    /\ mounted
    /\ lastOp = "saveEffect"
    /\ queued # <<>>
    /\ reminders' = queued[Len(queued)]
    /\ queued' = <<>>
    /\ lastOp' = "rerender"
    /\ UNCHANGED <<mounted, storage, loaded, effectPass, everythingElse>>

\* the user leaves the page once the mount has come to rest
Leave ==
    /\ mounted
    /\ \/ lastOp = "idle"
       \/ lastOp = "saveEffect" /\ queued = <<>>
    /\ mounted' = FALSE
    /\ reminders' = <<>>
    /\ lastOp' = "leave"
    /\ UNCHANGED <<storage, loaded, mountVars, everythingElse>>

NextMount ==
    \/ FirstRender
    \/ LoadEffect
    \/ SaveEffect
    \/ Rerender
    \/ Leave

SpecMount == InitSessions /\ [][NextMount]_vars

\* C29: while the page mounts, a stored value that is a valid reminder list
\* stays what the visit found: after each effect and each render of the
\* mount the storage holds that list.
C29_MountKeepsStorage ==
    (/\ mounted
     /\ effectPass > 0
     /\ loaded.raw = "json"
     /\ IsReminderArray(loaded.doc))
        => storage = loaded

\* ---------------------------------------------------------------------
\* Symptom triage: services/symptomChecker.ts and the Dashboard handler
\* ---------------------------------------------------------------------

\* JavaScript strings are strings; s.trim() strips these from both ends
Whitespace == {" ", "\t", "\n"}

CharAt(s, i) == SubSeq(s, i, i)

RECURSIVE TrimStart(_)
TrimStart(s) ==
    IF s # "" /\ CharAt(s, 1) \in Whitespace
    THEN TrimStart(SubSeq(s, 2, Len(s)))
    ELSE s

RECURSIVE TrimEnd(_)
TrimEnd(s) ==
    IF s # "" /\ CharAt(s, Len(s)) \in Whitespace
    THEN TrimEnd(SubSeq(s, 1, Len(s) - 1))
    ELSE s

Trim(s) == TrimEnd(TrimStart(s))

UpperLetters == "ABCDEFGHIJKLMNOPQRSTUVWXYZ"

LowerLetters == "abcdefghijklmnopqrstuvwxyz"

LowerChar(c) ==
    IF \E i \in 1..Len(UpperLetters) : CharAt(UpperLetters, i) = c
    THEN CharAt(LowerLetters,
                CHOOSE i \in 1..Len(UpperLetters) : CharAt(UpperLetters, i) = c)
    ELSE c

RECURSIVE ToLowerCase(_)
ToLowerCase(s) ==
    IF Len(s) <= 1 THEN LowerChar(s)
    ELSE ToLowerCase(SubSeq(s, 1, Len(s) \div 2))
             \o ToLowerCase(SubSeq(s, Len(s) \div 2 + 1, Len(s)))

\* s.includes(part)
Includes(s, part) ==
    \E i \in 1..(Len(s) - Len(part) + 1) :
        SubSeq(s, i, i + Len(part) - 1) = part

\* a value that may be undefined: <<>> is undefined, <<v>> is v
Some(v) == <<v>>

SymptomData(key, conditions, recommendations, severity, advice) ==
    [key |-> key, conditions |-> conditions,
     recommendations |-> recommendations, severity |-> severity,
     advice |-> advice]

\* symptomDatabase, as Object.entries lists it: in the order of the source
SymptomDatabase ==
    <<
    SymptomData("diarrhea",
        <<"Gastroenteritis (stomach flu)",
          "Food poisoning",
          "Irritable Bowel Syndrome (IBS)",
          "Bacterial infection">>,
        <<"Drink plenty of fluids (water, electrolyte solutions, clear broths)",
          "Avoid dairy, fatty foods, and caffeine",
          "Eat BRAT diet: Bananas, Rice, Applesauce, Toast",
          "Consider oral rehydration solutions to prevent dehydration">>,
        "moderate",
        "Diarrhea can lead to dehydration quickly. Drink plenty of fluids and seek medical attention if it lasts more than 2 days, you have signs of dehydration (dry mouth, dark urine, dizziness), or if you see blood in stool."),
    SymptomData("loose stool",
        <<"Gastroenteritis",
          "Food intolerance",
          "IBS",
          "Bacterial infection">>,
        <<"Stay hydrated with water and electrolyte drinks",
          "Avoid spicy, fatty, or dairy foods",
          "Eat bland foods like rice, bananas, and toast",
          "Rest and avoid strenuous activity">>,
        "moderate",
        "Monitor your symptoms. If loose stools persist for more than 3 days or are accompanied by fever, blood, or severe dehydration, consult a healthcare provider."),
    SymptomData("constipation",
        <<"Dehydration",
          "Dietary fiber deficiency",
          "IBS",
          "Medication side effects">>,
        <<"Increase fiber intake (fruits, vegetables, whole grains)",
          "Drink plenty of water (8-10 glasses daily)",
          "Engage in regular physical activity",
          "Consider over-the-counter fiber supplements or stool softeners">>,
        "mild",
        "Most constipation resolves with dietary changes and increased hydration. See a doctor if it lasts more than 2 weeks, is severe, or accompanied by blood in stool."),
    SymptomData("nausea",
        <<"Gastroenteritis",
          "Food poisoning",
          "Motion sickness",
          "Pregnancy",
          "Medication side effects">>,
        <<"Eat small, bland meals throughout the day",
          "Avoid strong smells and spicy foods",
          "Stay hydrated with small sips of water or ginger tea",
          "Get fresh air and rest in a quiet environment">>,
        "moderate",
        "Nausea is usually temporary. Seek medical attention if it persists for more than 2 days, you cannot keep fluids down, or if you experience severe vomiting."),
    SymptomData("vomiting",
        <<"Gastroenteritis",
          "Food poisoning",
          "Viral infection",
          "Migraine",
          "Motion sickness">>,
        <<"Rest and avoid solid foods for a few hours",
          "Sip small amounts of clear fluids (water, electrolyte solutions)",
          "Gradually reintroduce bland foods (crackers, toast)",
          "Avoid dairy, caffeine, and alcohol">>,
        "moderate",
        "Vomiting can cause dehydration. If vomiting persists for more than 24 hours, you cannot keep fluids down, see blood in vomit, or have signs of dehydration, seek immediate medical care."),
    SymptomData("stomach pain",
        <<"Gastritis",
          "Indigestion",
          "IBS",
          "Appendicitis (if severe)",
          "Food poisoning">>,
        <<"Avoid spicy, fatty, or acidic foods",
          "Eat smaller, more frequent meals",
          "Apply a warm compress to the abdomen",
          "Consider antacids for indigestion">>,
        "moderate",
        "Mild stomach pain often resolves with dietary changes. Seek immediate medical attention if pain is severe, persistent, located in lower right abdomen, or accompanied by fever, vomiting, or blood in stool."),
    SymptomData("abdominal pain",
        <<"Gastritis",
          "Indigestion",
          "IBS",
          "Appendicitis (if severe)",
          "Food poisoning">>,
        <<"Avoid spicy, fatty, or acidic foods",
          "Eat smaller, more frequent meals",
          "Apply a warm compress to the abdomen",
          "Consider antacids for indigestion">>,
        "moderate",
        "Mild abdominal pain often resolves with dietary changes. Seek immediate medical attention if pain is severe, persistent, located in lower right abdomen, or accompanied by fever, vomiting, or blood in stool."),
    SymptomData("cough",
        <<"Common cold",
          "Upper respiratory infection",
          "Bronchitis",
          "Allergies",
          "Asthma">>,
        <<"Stay hydrated with warm fluids (tea, soup)",
          "Use a humidifier or steam inhalation",
          "Avoid irritants like smoke and dust",
          "Get plenty of rest and consider cough drops">>,
        "moderate",
        "Most coughs resolve within 1-2 weeks. See a doctor if cough persists for more than 3 weeks, produces blood, is accompanied by chest pain or difficulty breathing, or if you have a high fever."),
    SymptomData("sore throat",
        <<"Viral pharyngitis",
          "Strep throat (bacterial)",
          "Common cold",
          "Allergies">>,
        <<"Gargle with warm salt water several times daily",
          "Drink warm fluids (tea with honey, soup)",
          "Use throat lozenges or sprays",
          "Rest your voice and avoid irritants">>,
        "moderate",
        "Most sore throats are viral and resolve in 3-7 days. See a doctor if symptoms persist, you have difficulty swallowing, high fever, or white spots on tonsils (possible strep throat)."),
    SymptomData("runny nose",
        <<"Common cold",
          "Allergies",
          "Sinusitis",
          "Viral infection">>,
        <<"Use saline nasal spray or rinse",
          "Stay hydrated",
          "Use a humidifier",
          "Consider over-the-counter decongestants or antihistamines">>,
        "mild",
        "Runny nose is usually part of a cold or allergies. If it persists for more than 10 days, is accompanied by fever, or you have facial pain, consult a healthcare provider."),
    SymptomData("nasal congestion",
        <<"Common cold",
          "Allergies",
          "Sinusitis",
          "Viral infection">>,
        <<"Use saline nasal spray or rinse",
          "Apply warm compress to face",
          "Use a humidifier",
          "Consider over-the-counter decongestants">>,
        "mild",
        "Nasal congestion usually resolves with a cold. See a doctor if it lasts more than 10 days, is accompanied by fever or facial pain, or if you have difficulty breathing."),
    SymptomData("difficulty breathing",
        <<"Asthma",
          "Anxiety",
          "Pneumonia",
          "COPD",
          "Allergic reaction">>,
        <<"Sit upright and try to stay calm",
          "Avoid triggers (allergens, smoke)",
          "Use prescribed inhaler if available",
          "Seek immediate medical attention if severe">>,
        "severe",
        "Difficulty breathing requires immediate medical attention. Go to the emergency room if breathing is severely impaired, you have chest pain, or your lips/fingernails turn blue."),
    SymptomData("headache",
        <<"Tension headache",
          "Migraine",
          "Sinus headache",
          "Dehydration",
          "Eye strain">>,
        <<"Rest in a dark, quiet room",
          "Apply cold or warm compress to forehead",
          "Stay hydrated",
          "Consider over-the-counter pain relievers (ibuprofen, acetaminophen)">>,
        "moderate",
        "Most headaches are tension-related and resolve with rest and pain relievers. Seek immediate medical attention if headache is sudden and severe (thunderclap), accompanied by fever/stiff neck, or if you have vision changes or confusion."),
    SymptomData("migraine",
        <<"Migraine",
          "Tension headache",
          "Cluster headache">>,
        <<"Rest in a dark, quiet room",
          "Apply cold compress to head",
          "Avoid triggers (bright lights, loud noises)",
          "Consider prescription migraine medication if available">>,
        "moderate",
        "Migraines can be debilitating. If you experience frequent migraines, see a doctor for proper diagnosis and treatment. Seek immediate care if migraine is accompanied by vision loss, confusion, or weakness."),
    SymptomData("dizziness",
        <<"Dehydration",
          "Low blood pressure",
          "Inner ear infection",
          "Anemia",
          "Vertigo">>,
        <<"Sit or lie down immediately",
          "Stay hydrated",
          "Move slowly when changing positions",
          "Avoid sudden head movements">>,
        "moderate",
        "Dizziness can be caused by many factors. If it persists, is severe, or is accompanied by chest pain, difficulty speaking, or loss of consciousness, seek immediate medical attention."),
    SymptomData("ear pain",
        <<"Ear infection (otitis media)",
          "Swimmer's ear",
          "Eustachian tube dysfunction",
          "TMJ disorder">>,
        <<"Apply warm compress to affected ear",
          "Use over-the-counter pain relievers",
          "Avoid inserting anything into the ear",
          "Keep ear dry if it's an outer ear infection">>,
        "moderate",
        "Ear pain, especially in children, should be evaluated by a doctor. See a healthcare provider if pain is severe, persists more than 2 days, or is accompanied by fever, hearing loss, or discharge from the ear."),
    SymptomData("fever",
        <<"Viral infection",
          "Bacterial infection",
          "Inflammatory condition",
          "Common cold",
          "Flu">>,
        <<"Stay hydrated with water and electrolyte drinks",
          "Rest and get plenty of sleep",
          "Take fever-reducing medication (acetaminophen or ibuprofen)",
          "Use cool compresses or lukewarm bath">>,
        "moderate",
        "Fever is usually a sign of infection. Seek medical attention if fever is above 103°F (39.4°C), persists for more than 3 days, is accompanied by severe symptoms, or if you have a weakened immune system."),
    SymptomData("chills",
        <<"Viral infection",
          "Bacterial infection",
          "Fever",
          "Flu",
          "Common cold">>,
        <<"Stay warm with blankets",
          "Rest and stay hydrated",
          "Monitor temperature",
          "Take fever-reducing medication if needed">>,
        "moderate",
        "Chills often accompany fever and infections. If chills are severe, persistent, or accompanied by high fever, seek medical attention."),
    SymptomData("fatigue",
        <<"Anemia",
          "Sleep disorder",
          "Chronic fatigue syndrome",
          "Depression",
          "Thyroid issues",
          "Viral infection">>,
        <<"Ensure adequate sleep (7-9 hours)",
          "Maintain a balanced diet",
          "Stay hydrated",
          "Engage in light exercise">>,
        "moderate",
        "Fatigue can have many causes. If it persists for more than 2 weeks, is severe, or is accompanied by other symptoms like weight loss or fever, consult a healthcare provider."),
    SymptomData("body ache",
        <<"Viral infection",
          "Flu",
          "Fibromyalgia",
          "Dehydration",
          "Overexertion">>,
        <<"Rest and allow body to recover",
          "Apply warm compresses to sore areas",
          "Take over-the-counter pain relievers",
          "Stay hydrated and maintain gentle movement">>,
        "moderate",
        "Body aches are common with infections like flu. If aches are severe, persistent, or accompanied by high fever, consult a healthcare provider."),
    SymptomData("muscle pain",
        <<"Muscle strain",
          "Overexertion",
          "Fibromyalgia",
          "Viral infection",
          "Dehydration">>,
        <<"Rest the affected muscles",
          "Apply ice for first 48 hours, then heat",
          "Gentle stretching and massage",
          "Take over-the-counter pain relievers">>,
        "mild",
        "Most muscle pain resolves with rest and self-care. See a doctor if pain is severe, persists for more than a week, or is accompanied by swelling, redness, or fever."),
    SymptomData("rash",
        <<"Allergic reaction",
          "Contact dermatitis",
          "Eczema",
          "Viral infection",
          "Heat rash">>,
        <<"Avoid scratching the affected area",
          "Apply cool compresses or calamine lotion",
          "Use fragrance-free moisturizers",
          "Identify and avoid potential allergens">>,
        "moderate",
        "Most rashes are not serious. Seek medical attention if rash is widespread, accompanied by fever, difficulty breathing, or if it appears suddenly and spreads rapidly."),
    SymptomData("itching",
        <<"Allergic reaction",
          "Dry skin",
          "Eczema",
          "Contact dermatitis",
          "Insect bites">>,
        <<"Apply cool compresses to itchy areas",
          "Use fragrance-free moisturizers",
          "Avoid hot showers and harsh soaps",
          "Consider over-the-counter antihistamines or hydrocortisone cream">>,
        "mild",
        "Mild itching usually resolves with self-care. See a doctor if itching is severe, persistent, widespread, or accompanied by rash, swelling, or difficulty breathing."),
    SymptomData("chest pain",
        <<"Heartburn/acid reflux",
          "Anxiety",
          "Muscle strain",
          "Angina",
          "Heart attack (if severe)">>,
        <<"Rest and avoid strenuous activity",
          "If heartburn, avoid trigger foods and consider antacids",
          "Stay calm and monitor symptoms",
          "Seek immediate medical attention if severe">>,
        "severe",
        "Chest pain can be serious. Seek IMMEDIATE emergency medical attention if pain is severe, radiates to arm/jaw, is accompanied by shortness of breath, nausea, or sweating - these could indicate a heart attack."),
    SymptomData("back pain",
        <<"Muscle strain",
          "Poor posture",
          "Herniated disc",
          "Arthritis",
          "Kidney infection">>,
        <<"Rest and avoid heavy lifting",
          "Apply ice for first 48 hours, then heat",
          "Practice good posture",
          "Gentle stretching and over-the-counter pain relievers">>,
        "moderate",
        "Most back pain improves with rest and self-care. See a doctor if pain is severe, persists for more than 2 weeks, radiates down legs, or is accompanied by numbness, weakness, or loss of bladder control."),
    SymptomData("joint pain",
        <<"Arthritis",
          "Injury",
          "Bursitis",
          "Gout",
          "Overuse">>,
        <<"Rest the affected joint",
          "Apply ice to reduce inflammation",
          "Take over-the-counter anti-inflammatory medication",
          "Gentle range-of-motion exercises">>,
        "moderate",
        "Joint pain can have various causes. If pain is severe, persistent, or accompanied by swelling, redness, or fever, consult a healthcare provider."),
    SymptomData("eye pain",
        <<"Eye strain",
          "Dry eyes",
          "Conjunctivitis",
          "Sinusitis",
          "Foreign object">>,
        <<"Rest eyes and avoid screens",
          "Use artificial tears for dry eyes",
          "Apply warm compress",
          "Avoid rubbing eyes">>,
        "moderate",
        "Eye pain should be evaluated by a doctor, especially if it's severe, accompanied by vision changes, discharge, or sensitivity to light."),
    SymptomData("sore muscles",
        <<"Muscle strain",
          "Overexertion",
          "Delayed onset muscle soreness (DOMS)",
          "Viral infection">>,
        <<"Rest and allow muscles to recover",
          "Apply ice for first 48 hours, then heat",
          "Gentle stretching and massage",
          "Stay hydrated and take over-the-counter pain relievers">>,
        "mild",
        "Sore muscles usually resolve with rest. If pain is severe, persists for more than a week, or is accompanied by swelling or fever, consult a healthcare provider.")
    >>

Keys == {SymptomDatabase[i].key : i \in 1..Len(SymptomDatabase)}

\* symptomDatabase is a plain object: these lowercase names are found on
\* its prototype, where they name an object without the entry's fields
InheritedKeys == {"constructor", "__proto__"}

\* symptomDatabase[name]
Lookup(name) ==
    IF name \in Keys
    THEN Some(SymptomDatabase[CHOOSE i \in 1..Len(SymptomDatabase) :
                                  SymptomDatabase[i].key = name])
    ELSE IF name \in InheritedKeys THEN Some([inherited |-> name])
    ELSE <<>>

\* data.field: undefined when the object has no such property
Get(data, field) ==
    IF field \in DOMAIN data THEN Some(data[field]) ELSE <<>>

IsMatch(lowerSymptoms, entry) ==
    Includes(lowerSymptoms, entry.key) \/ Includes(entry.key, lowerSymptoms)

\* the entries of Object.entries(symptomDatabase) the partial-match loops
\* accept, in their order
PartialMatches(lowerSymptoms) ==
    SelectSeq(SymptomDatabase, LAMBDA entry : IsMatch(lowerSymptoms, entry))

\* foundSymptoms.sort(...)[0]: an exact key first, else the longest key,
\* the earlier one among equals (the sort is stable)
BestMatch(foundSymptoms, lowerSymptoms) ==
    LET n == Len(foundSymptoms)
        longest == CHOOSE i \in 1..n :
            /\ \A j \in 1..n :
                   Len(foundSymptoms[j].key) <= Len(foundSymptoms[i].key)
            /\ \A j \in 1..(i - 1) :
                   Len(foundSymptoms[j].key) < Len(foundSymptoms[i].key)
    IN  IF \E i \in 1..n : foundSymptoms[i].key = lowerSymptoms
        THEN foundSymptoms[CHOOSE i \in 1..n :
                               foundSymptoms[i].key = lowerSymptoms]
        ELSE foundSymptoms[longest]

keywordMap ==
    <<[key |-> "stomach", conditions |-> <<"Gastritis", "Indigestion", "IBS">>],
      [key |-> "belly", conditions |-> <<"Gastritis", "Indigestion", "IBS">>],
      [key |-> "throat", conditions |->
          <<"Viral pharyngitis", "Strep throat", "Common cold">>],
      [key |-> "nose", conditions |->
          <<"Common cold", "Allergies", "Sinusitis">>],
      [key |-> "chest", conditions |->
          <<"Heartburn", "Anxiety", "Muscle strain">>],
      [key |-> "back", conditions |->
          <<"Muscle strain", "Poor posture", "Herniated disc">>],
      [key |-> "joint", conditions |-> <<"Arthritis", "Injury", "Bursitis">>],
      [key |-> "muscle", conditions |->
          <<"Muscle strain", "Overexertion", "Fibromyalgia">>],
      [key |-> "eye", conditions |->
          <<"Eye strain", "Dry eyes", "Conjunctivitis">>],
      [key |-> "ear", conditions |->
          <<"Ear infection", "Swimmer's ear",
            "Eustachian tube dysfunction">>]>>

GenericConditions ==
    <<"General symptoms - consult a healthcare provider for proper diagnosis">>

\* extractConditionsFromSymptoms: string[], or undefined
ExtractConditionsFromSymptoms(symptoms) ==
    LET lowerSymptoms == Trim(ToLowerCase(symptoms))
        foundSymptoms == PartialMatches(lowerSymptoms)
        hits == SelectSeq(keywordMap,
                          LAMBDA w : Includes(lowerSymptoms, w.key))
    IN  IF Lookup(lowerSymptoms) # <<>>
        THEN Get(Lookup(lowerSymptoms)[1], "conditions")
        ELSE IF Len(foundSymptoms) > 0
        THEN Some(BestMatch(foundSymptoms, lowerSymptoms).conditions)
        ELSE IF hits # <<>> THEN Some(hits[1].conditions)
        ELSE Some(GenericConditions)

severeKeywords ==
    {"severe", "extreme", "unbearable", "emergency", "chest pain",
     "difficulty breathing", "loss of consciousness"}

mildKeywords == {"mild", "slight", "minor", "occasional"}

AssessSeverity(symptoms) ==
    IF \E keyword \in severeKeywords : Includes(symptoms, keyword)
    THEN "severe"
    ELSE IF \E keyword \in mildKeywords : Includes(symptoms, keyword)
    THEN "mild"
    ELSE "moderate"

KeywordRecommendations(lowerSymptoms) ==
    IF Includes(lowerSymptoms, "fever") \/ Includes(lowerSymptoms, "temperature")
    THEN <<"Stay hydrated with water and electrolyte drinks",
           "Rest and get plenty of sleep",
           "Take fever-reducing medication (acetaminophen or ibuprofen)",
           "Monitor temperature regularly">>
    ELSE IF Includes(lowerSymptoms, "pain") \/ Includes(lowerSymptoms, "ache")
    THEN <<"Rest the affected area",
           "Apply ice for first 48 hours, then heat",
           "Take over-the-counter pain relievers (ibuprofen or acetaminophen)",
           "Avoid activities that worsen the pain">>
    ELSE IF Includes(lowerSymptoms, "cough") \/ Includes(lowerSymptoms, "cold")
    THEN <<"Stay hydrated with warm fluids (tea, soup)",
           "Use a humidifier or steam inhalation",
           "Get plenty of rest",
           "Consider cough drops or over-the-counter cough medicine">>
    ELSE IF Includes(lowerSymptoms, "nausea") \/ Includes(lowerSymptoms, "vomit")
    THEN <<"Eat small, bland meals throughout the day",
           "Stay hydrated with small sips of water or electrolyte drinks",
           "Avoid strong smells and spicy foods",
           "Get fresh air and rest in a quiet environment">>
    ELSE IF Includes(lowerSymptoms, "headache") \/ Includes(lowerSymptoms, "head")
    THEN <<"Rest in a dark, quiet room",
           "Apply cold or warm compress to forehead",
           "Stay hydrated",
           "Consider over-the-counter pain relievers">>
    ELSE <<"Get adequate rest (7-9 hours of sleep)",
           "Stay hydrated with water",
           "Monitor symptoms closely",
           "Avoid triggers that may worsen symptoms">>

\* list.slice(0, n)
Slice(list, n) == SubSeq(list, 1, IF Len(list) < n THEN Len(list) ELSE n)

\* getDefaultRecommendations: string[], or undefined
GetDefaultRecommendations(symptoms) ==
    LET lowerSymptoms == Trim(ToLowerCase(symptoms))
        found == PartialMatches(lowerSymptoms)
    IN  IF Lookup(lowerSymptoms) # <<>>
        THEN Get(Lookup(lowerSymptoms)[1], "recommendations")
        ELSE IF found # <<>> THEN Some(found[1].recommendations)
        ELSE Some(Slice(KeywordRecommendations(lowerSymptoms), 4))

SeverityAdvice(severity) ==
    CASE severity = "severe" ->
           "These symptoms may require immediate medical attention. Please consult a healthcare provider or visit an emergency room immediately, especially if symptoms are worsening or you have difficulty breathing, chest pain, or loss of consciousness."
      [] severity = "moderate" ->
           "Monitor your symptoms closely. If they persist for more than 2-3 days, worsen, or are accompanied by fever, severe pain, or other concerning symptoms, consult a healthcare provider for proper evaluation and treatment."
      [] severity = "mild" ->
           "These symptoms are typically mild and may resolve with self-care including rest, hydration, and over-the-counter remedies. However, if symptoms persist for more than a week, worsen, or you have concerns, consult a healthcare provider for proper diagnosis."
      [] OTHER ->
           "Please consult a healthcare provider for proper diagnosis and treatment. While many symptoms resolve on their own, professional medical evaluation ensures appropriate care and rules out serious conditions."

\* getDefaultAdvice(severity, symptoms?): symptoms is <<>> when the caller
\* passes none; the result is a string, or undefined
GetDefaultAdvice(severity, symptoms) ==
    LET given == symptoms # <<>> /\ symptoms[1] # ""
        lowerSymptoms == IF symptoms = <<>> THEN ""
                         ELSE Trim(ToLowerCase(symptoms[1]))
        found == PartialMatches(lowerSymptoms)
    IN  IF given /\ Lookup(lowerSymptoms) # <<>>
        THEN Get(Lookup(lowerSymptoms)[1], "advice")
        ELSE IF given /\ found # <<>> THEN Some(found[1].advice)
        ELSE Some(SeverityAdvice(severity))

\* a SymptomAnalysis; each field is a value that may be undefined
Analysis(conditions, recommendations, severity, advice) ==
    [possibleConditions |-> conditions, recommendations |-> recommendations,
     severity |-> severity, advice |-> advice]

FromEntry(data) ==
    Analysis(Get(data, "conditions"), Get(data, "recommendations"),
             Get(data, "severity"), Get(data, "advice"))

\* getFallbackAnalysis with a lookup that does not lower the case
GetFallbackAnalysis_CaseSensitive(symptoms) ==
    LET lowerSymptoms == Trim(symptoms)
        found == PartialMatches(lowerSymptoms)
        severity == AssessSeverity(lowerSymptoms)
    IN  IF Lookup(lowerSymptoms) # <<>>
        THEN FromEntry(Lookup(lowerSymptoms)[1])
        ELSE IF found # <<>> THEN FromEntry(found[1])
        ELSE Analysis(ExtractConditionsFromSymptoms(lowerSymptoms),
                      GetDefaultRecommendations(lowerSymptoms),
                      Some(severity),
                      GetDefaultAdvice(severity, Some(lowerSymptoms)))

GetFallbackAnalysis(symptoms) ==
    LET lowerSymptoms == Trim(ToLowerCase(symptoms))
        found == PartialMatches(lowerSymptoms)
        severity == AssessSeverity(lowerSymptoms)
    IN  IF Lookup(lowerSymptoms) # <<>>
        THEN FromEntry(Lookup(lowerSymptoms)[1])
        ELSE IF found # <<>> THEN FromEntry(found[1])
        ELSE Analysis(ExtractConditionsFromSymptoms(lowerSymptoms),
                      GetDefaultRecommendations(lowerSymptoms),
                      Some(severity),
                      GetDefaultAdvice(severity, Some(lowerSymptoms)))

\* The three sections of the generated text are read with
\* text.match(/LABELS?:\s*([^|]+)/i); label is given in lower case and
\* plural says whether the S? is there.

\* the index after "LABEL:" or "LABELS:" found at p, 0 if neither is
AfterColon(text, label, plural, p) ==
    LET q == p + Len(label)
    IN  IF ToLowerCase(SubSeq(text, p, q - 1)) # label THEN 0
        ELSE IF plural /\ q < Len(text)
                       /\ ToLowerCase(SubSeq(text, q, q + 1)) = "s:"
        THEN q + 2
        ELSE IF CharAt(text, q) = ":" THEN q + 1
        ELSE 0

\* \s* takes every white space from q on: the index it stops at
AfterSpace(text, q) ==
    CHOOSE e \in q..(Len(text) + 1) :
        /\ e = Len(text) + 1 \/ CharAt(text, e) \notin Whitespace
        /\ \A d \in q..(e - 1) : CharAt(text, d) \in Whitespace

\* [^|]+ runs from e to the next bar or to the end
UpToBar(text, e) ==
    SubSeq(text, e,
           (CHOOSE b \in e..(Len(text) + 1) :
                /\ b = Len(text) + 1 \/ CharAt(text, b) = "|"
                /\ \A d \in e..(b - 1) : CharAt(text, d) # "|") - 1)

\* the group when \s* starts at q and stops at e: where \s* leaves
\* nothing for the group, \s* gives back its last white space, and there
\* is no match if it took none
GroupAt(text, q, e) ==
    IF e <= Len(text) /\ CharAt(text, e) # "|" THEN Some(UpToBar(text, e))
    ELSE IF e > q THEN Some(CharAt(text, e - 1))
    ELSE <<>>

\* the group of a match whose label ends before q; q = 0: no label
Group(text, q) ==
    IF q = 0 THEN <<>> ELSE GroupAt(text, q, AfterSpace(text, q))

\* the group of the match that starts at p, <<>> if none starts there
MatchAt(text, label, plural, p) ==
    IF p + Len(label) > Len(text) THEN <<>>
    ELSE Group(text, AfterColon(text, label, plural, p))

\* the match that starts first, among those that start in starts
FirstMatch(text, label, plural, starts) ==
    IF starts = {} THEN <<>>
    ELSE MatchAt(text, label, plural,
                 CHOOSE p \in starts : \A o \in starts : p <= o)

\* text.match(...)[1], or undefined when nothing matches
Capture(text, label, plural) ==
    FirstMatch(text, label, plural,
               {p \in 1..Len(text) : MatchAt(text, label, plural, p) # <<>>})

Separators == {",", ";"}

\* s.split(/[,;]/)
RECURSIVE Split(_)
Split(s) ==
    IF \E i \in 1..Len(s) : CharAt(s, i) \in Separators
    THEN LET i == CHOOSE i \in 1..Len(s) :
                      /\ CharAt(s, i) \in Separators
                      /\ \A j \in 1..(i - 1) : CharAt(s, j) \notin Separators
         IN  <<SubSeq(s, 1, i - 1)>> \o Split(SubSeq(s, i + 1, Len(s)))
    ELSE <<s>>

\* list.map(trim).filter(Boolean)
RECURSIVE Trimmed(_)
Trimmed(list) ==
    IF list = <<>> THEN <<>>
    ELSE (IF Trim(Head(list)) = "" THEN <<>> ELSE <<Trim(Head(list))>>)
             \o Trimmed(Tail(list))

\* captured.split(/[,;]/).map(trim).filter(Boolean).slice(0, 3)
Items(captured) == Slice(Trimmed(Split(captured)), 3)

\* how a call ends: it returns a value, or throws
Returns(value) == [threw |-> FALSE, value |-> value, message |-> ""]

Throws(message) == [threw |-> TRUE, value |-> <<>>, message |-> message]

\* match ? match[1].split(...)... : otherwise
ItemsOr(match, otherwise) ==
    IF match # <<>> THEN Some(Items(match[1])) ELSE otherwise

\* adviceMatch ? adviceMatch[1].trim() : getDefaultAdvice(severity)
AdviceOr(adviceMatch, severity) ==
    IF adviceMatch # <<>> THEN Some(Trim(adviceMatch[1]))
    ELSE GetDefaultAdvice(severity, <<>>)

\* the return statement of parseAIResponse; conditions.length throws
\* when conditions is undefined
ParsedResult(conditions, recommendations, severity, advice) ==
    IF conditions = <<>>
    THEN Throws("Cannot read properties of undefined (reading 'length')")
    ELSE Returns(Analysis(
             Some(IF Len(conditions[1]) > 0 THEN conditions[1]
                  ELSE <<"General symptoms">>),
             recommendations, Some(severity), advice))

\* let severity = ...: the generated text decides, else the description
TextSeverity(lowerText, lowerSymptoms) ==
    IF Includes(lowerText, "severe") \/ Includes(lowerText, "emergency")
    THEN "severe"
    ELSE IF Includes(lowerText, "mild") \/ Includes(lowerText, "minor")
    THEN "mild"
    ELSE AssessSeverity(lowerSymptoms)

\* parseAIResponse(aiText, originalSymptoms); aiText is what the response
\* carries as generated_text, a JValue of any type
ParseAIResponse(aiText, originalSymptoms) ==
    IF aiText.type # "string"
    THEN Throws("aiText.toLowerCase is not a function")
    ELSE
    LET lowerText == ToLowerCase(aiText.v)
        lowerSymptoms == ToLowerCase(originalSymptoms)
        conditionsMatch == Capture(aiText.v, "condition", TRUE)
        conditions ==
            ItemsOr(conditionsMatch,
                    ExtractConditionsFromSymptoms(lowerSymptoms))
        recommendationsMatch == Capture(aiText.v, "recommendation", TRUE)
        recommendations ==
            ItemsOr(recommendationsMatch,
                    GetDefaultRecommendations(lowerSymptoms))
        severity == TextSeverity(lowerText, lowerSymptoms)
        adviceMatch == Capture(aiText.v, "advice", FALSE)
    IN  ParsedResult(conditions, recommendations, severity,
                     AdviceOr(adviceMatch, severity))

\* what the request to the inference API comes to: fetch rejects, the
\* response is not ok, response.json() rejects, or it yields a document
FetchRejected == [kind |-> "rejected", data |-> Undefined]

NotOk == [kind |-> "notOk", data |-> Undefined]

BadBody == [kind |-> "badBody", data |-> Undefined]

Ok(data) == [kind |-> "ok", data |-> data]

\* { generated_text: text }; text is Undefined when the property is absent
Generated(text) == JValue("object", text)

Truthy(x) ==
    ~ \/ x.type \in {"undefined", "null"}
      \/ x.type = "string" /\ x.v = ""
      \/ x.type = "number" /\ x.v = 0

\* x.generated_text, for x neither null nor undefined
GeneratedText(x) == IF x.type = "object" THEN x.v ELSE Undefined

\* data[0]
First(data) == IF Len(data.v) > 0 THEN data.v[1] ELSE Undefined

InvalidInput == "Please describe your symptoms"

\* a call of analyzeSymptoms: how it ends and whether it called fetch
Settled(end, fetched) == [end |-> end, fetched |-> fetched]

\* the generated text the try block hands to parseAIResponse, Undefined
\* where it finds none or an error takes it to the catch block
TextOf(remote) ==
    IF remote.kind # "ok" \/ remote.data.type \in {"null", "undefined"}
    THEN Undefined
    ELSE IF /\ remote.data.type = "array"
            /\ Truthy(First(remote.data))
            /\ Truthy(GeneratedText(First(remote.data)))
    THEN GeneratedText(First(remote.data))
    ELSE IF Truthy(GeneratedText(remote.data))
    THEN GeneratedText(remote.data)
    ELSE Undefined

\* the try block up to line 48: what parseAIResponse returns or throws
TryBlock(aiText, symptoms) ==
    IF aiText = Undefined THEN Throws("no generated text")
    ELSE ParseAIResponse(aiText, symptoms)

\* line 52 and the catch block: all that did not return ends here
OrFallback(attempt, symptoms) ==
    IF attempt.threw THEN Returns(GetFallbackAnalysis(symptoms)) ELSE attempt

\* analyzeSymptoms with a guard that does not trim
AnalyzeSymptoms_NoTrim(symptoms, remote) ==
    IF symptoms = "" THEN Settled(Throws(InvalidInput), FALSE)
    ELSE Settled(OrFallback(TryBlock(TextOf(remote), symptoms), symptoms),
                 TRUE)

\* analyzeSymptoms with parseAIResponse called outside the try block
AnalyzeSymptoms_ParseThrows(symptoms, remote) ==
    IF Trim(symptoms) = "" THEN Settled(Throws(InvalidInput), FALSE)
    ELSE Settled(IF TextOf(remote) = Undefined
                 THEN Returns(GetFallbackAnalysis(symptoms))
                 ELSE ParseAIResponse(TextOf(remote), symptoms),
                 TRUE)

\* analyzeSymptoms(symptoms) when the request comes to remote: every
\* error after the guard is caught and answered by the fallback
AnalyzeSymptoms(symptoms, remote) ==
    IF Trim(symptoms) = "" THEN Settled(Throws(InvalidInput), FALSE)
    ELSE Settled(OrFallback(TryBlock(TextOf(remote), symptoms), symptoms),
                 TRUE)

\* ----------------------------------------------- the Dashboard's triage

\* everything the symptom card of the Dashboard leaves alone
otherPages ==
    <<now, timerDue, reminders, activeReminderId, nextId, alarm,
      audioSupported, fired, sinceTick, tickGap, userOps, mounted, storage,
      loaded, airVars, mountVars>>

UpperChar(c) ==
    IF \E i \in 1..Len(LowerLetters) : CharAt(LowerLetters, i) = c
    THEN CharAt(UpperLetters,
                CHOOSE i \in 1..Len(LowerLetters) : CharAt(LowerLetters, i) = c)
    ELSE c

RECURSIVE ToUpperCase(_)
ToUpperCase(s) ==
    IF Len(s) <= 1 THEN UpperChar(s)
    ELSE ToUpperCase(SubSeq(s, 1, Len(s) \div 2))
             \o ToUpperCase(SubSeq(s, Len(s) \div 2 + 1, Len(s)))

\* descriptions the user submits: blank ones, every key of the knowledge
\* base as it is and in capitals with white space around it, and free text
BlankInputs == {"", " ", " \t\n"}

KeyInputs == Keys \cup {"  " \o ToUpperCase(k) \o "\n" : k \in Keys}

FreeInputs ==
    {"severe headache", "Mild Fever", "nausea and stomach pain", "pain",
     "ache", "h", "my belly hurts", "my head hurts", "high temperature",
     "xyzzy123", "constructor", " Constructor ", "__proto__", "emergency",
     "slight cold", "sore throat and cough", "minor rash on my back",
     "Chest Pain and Fever", "vomit", "unbearable itch"}

SymptomInputs == BlankInputs \cup KeyInputs \cup FreeInputs

\* texts the model generates
AiTexts ==
    <<"CONDITIONS: Flu, Common cold; Allergy, Asthma | RECOMMENDATIONS: Rest, Fluids; Sleep, Tea | ADVICE: See a doctor if it lasts",
      "condition: Flu|recommendation: Rest|advice: Wait and see",
      "Possible conditions : none. This looks like an emergency",
      "Probably a minor irritation",
      "It could be many things",
      "RECOMMENDATIONS: ;",
      "CONDITIONS: , | ADVICE: ",
      "CONDITIONS: \n| RECOMMENDATIONS:| ADVICE:\t">>

Text(s) == JValue("string", s)

List(items) == JValue("array", items)

\* what the request may come to
RemoteOutcomes ==
    <<FetchRejected, NotOk, BadBody,
      Ok(JValue("null", 0)),
      Ok(Text("Model is loading")),
      Ok(List(<<>>)),
      Ok(List(<<JValue("null", 0)>>)),
      Ok(List(<<Generated(Undefined)>>)),
      Ok(List(<<Generated(Text(""))>>)),
      Ok(List(<<Generated(JValue("number", 5))>>)),
      Ok(Generated(Undefined)),
      Ok(Generated(JValue("number", 0))),
      Ok(Generated(Text(AiTexts[1]))),
      Ok(Generated(Text(AiTexts[6])))>>
    \o [i \in 1..Len(AiTexts) |-> Ok(List(<<Generated(Text(AiTexts[i]))>>))]

\* the Dashboard as the user finds it, with a description typed in
InitDashboard ==
    /\ now = 0
    /\ timerDue = Interval
    /\ reminders = <<>>
    /\ activeReminderId = 0
    /\ nextId = 1
    /\ alarm = AlarmInit
    /\ audioSupported = TRUE
    /\ fired = <<>>
    /\ sinceTick = -1
    /\ tickGap = -1
    /\ userOps = 0
    /\ lastOp = "mount"
    /\ mounted = TRUE
    /\ storage = Stringify(<<>>)
    /\ loaded = NoItem
    /\ InitAir
    /\ InitEffects
    /\ symptomInput \in SymptomInputs
    /\ analysisResult = <<>>
    /\ toast = ""
    /\ outcome = <<>>
    /\ fetches = 0

\* a call of analyzeSymptoms as the state keeps it
Call(symptoms, remote, settled) ==
    [symptoms |-> symptoms, remote |-> remote, end |-> settled.end,
     fetched |-> settled.fetched]

Requests(settled) == IF settled.fetched THEN 1 ELSE 0

\* analyzeSymptoms(symptomInput), called on its own
CallAnalyzeSymptoms ==
    /\ lastOp = "mount"
    /\ \E i \in 1..Len(RemoteOutcomes) :
           \E settled \in {AnalyzeSymptoms(symptomInput, RemoteOutcomes[i])} :
               /\ outcome' =
                      Some(Call(symptomInput, RemoteOutcomes[i], settled))
               /\ fetches' = fetches + Requests(settled)
    /\ lastOp' = "analyzeSymptoms"
    /\ UNCHANGED <<symptomInput, analysisResult, toast, otherPages>>

\* what the handler shows when the call ends in end
Shown(end) ==
    /\ analysisResult' = IF end.threw THEN <<>> ELSE Some(end.value)
    /\ toast' = IF ~end.threw THEN "Symptom analysis completed"
                ELSE IF end.message # "" THEN end.message
                ELSE "Failed to analyze symptoms. Please try again."

\* handleAnalyzeSymptoms, up to the end of its finally block
HandleAnalyzeSymptoms ==
    /\ lastOp = "mount"
    /\ IF Trim(symptomInput) = ""
       THEN /\ toast' = InvalidInput
            /\ UNCHANGED <<analysisResult, outcome, fetches>>
       ELSE \E i \in 1..Len(RemoteOutcomes) :
            \E settled \in {AnalyzeSymptoms(symptomInput, RemoteOutcomes[i])} :
                /\ outcome' =
                       Some(Call(symptomInput, RemoteOutcomes[i], settled))
                /\ fetches' = fetches + Requests(settled)
                /\ Shown(settled.end)
    /\ lastOp' = "handleAnalyzeSymptoms"
    /\ UNCHANGED <<symptomInput, otherPages>>

NextTriage ==
    \/ CallAnalyzeSymptoms
    \/ HandleAnalyzeSymptoms

SpecTriage == InitDashboard /\ [][NextTriage]_vars

\* ---- formulas over the latest call
Called == outcome # <<>>

Blank(s) == Trim(s) = ""

\* the remote service gave nothing usable, or parsing its text failed
RemoteFailed(symptoms, remote) ==
    \/ TextOf(remote) = Undefined
    \/ ParseAIResponse(TextOf(remote), symptoms).threw

\* C21: a blank description is rejected with the invalid-input error and
\* no request is sent, by analyzeSymptoms and by the Dashboard handler
C21_BlankRejected ==
    /\ (lastOp = "analyzeSymptoms" /\ Blank(symptomInput)) =>
           /\ outcome[1].end.threw
           /\ outcome[1].end.message = InvalidInput
           /\ ~outcome[1].fetched
           /\ fetches = 0
    /\ (lastOp = "handleAnalyzeSymptoms" /\ Blank(symptomInput)) =>
           /\ toast = InvalidInput
           /\ analysisResult = <<>>
           /\ outcome = <<>>
           /\ fetches = 0

C21_Witness ==
    /\ lastOp = "analyzeSymptoms"
    /\ symptomInput = " \t\n"
    /\ outcome[1].end.threw
    /\ fetches = 0

\* C22: for a description that is not blank analyzeSymptoms returns, and
\* when the request fails, the body is unusable or parsing the text
\* fails, it returns the fallback analysis of the description
C22_NeverFails ==
    (Called /\ ~Blank(outcome[1].symptoms)) =>
        /\ ~outcome[1].end.threw
        /\ RemoteFailed(outcome[1].symptoms, outcome[1].remote) =>
               outcome[1].end.value = GetFallbackAnalysis(outcome[1].symptoms)

C22_Witness ==
    /\ Called
    /\ outcome[1].symptoms = "constructor"
    /\ TextOf(outcome[1].remote) = Text(AiTexts[5])
    /\ ~outcome[1].end.threw
    /\ outcome[1].end.value = GetFallbackAnalysis("constructor")

\* C23: for a description that is not blank the result has at least one
\* condition, one to four recommendations, one severity tier and an
\* advice that is not empty, whatever the request came to
C23_OutputGuarantee ==
    (Called /\ ~Blank(outcome[1].symptoms)) =>
        /\ ~outcome[1].end.threw
        /\ LET result == outcome[1].end.value
           IN  /\ result.possibleConditions # <<>>
               /\ Len(result.possibleConditions[1]) > 0
               /\ result.recommendations # <<>>
               /\ Len(result.recommendations[1]) \in 1..4
               /\ result.severity # <<>>
               /\ result.severity[1] \in {"mild", "moderate", "severe"}
               /\ result.advice # <<>>
               /\ result.advice[1] # ""

\* the matching keys no other matching key is longer than
LongestMatches(lowerSymptoms) ==
    LET found == PartialMatches(lowerSymptoms)
    IN  {found[i] : i \in {i \in 1..Len(found) :
            \A j \in 1..Len(found) : Len(found[j].key) <= Len(found[i].key)}}

Normalized(symptoms) == Trim(ToLowerCase(symptoms))

\* C24: on the fallback path, when the normalized description is no key
\* but keys match it as substrings, the result is the entry of a longest
\* matching key
C24_LongestKeyWins ==
    (/\ Called
     /\ ~Blank(outcome[1].symptoms)
     /\ RemoteFailed(outcome[1].symptoms, outcome[1].remote)
     /\ Lookup(Normalized(outcome[1].symptoms)) = <<>>
     /\ PartialMatches(Normalized(outcome[1].symptoms)) # <<>>)
        => \E entry \in LongestMatches(Normalized(outcome[1].symptoms)) :
               outcome[1].end.value = FromEntry(entry)

\* C25: on the fallback path the severity is what the keyword scan of
\* the description gives
C25_SeverityFromScan ==
    (/\ Called
     /\ ~Blank(outcome[1].symptoms)
     /\ RemoteFailed(outcome[1].symptoms, outcome[1].remote))
        => outcome[1].end.value.severity =
               Some(AssessSeverity(Normalized(outcome[1].symptoms)))

\* C26: on the fallback path a description that is a key of the knowledge
\* base, in any letter case and with any white space around it, gets that
\* entry's conditions, recommendations, severity and advice
C26_ExactMatchVerbatim ==
    \A i \in 1..Len(SymptomDatabase) :
        (/\ Called
         /\ Normalized(outcome[1].symptoms) = SymptomDatabase[i].key
         /\ RemoteFailed(outcome[1].symptoms, outcome[1].remote))
            => /\ ~outcome[1].end.threw
               /\ outcome[1].end.value =
                      Analysis(Some(SymptomDatabase[i].conditions),
                               Some(SymptomDatabase[i].recommendations),
                               Some(SymptomDatabase[i].severity),
                               Some(SymptomDatabase[i].advice))

C26_Witness ==
    /\ Called
    /\ outcome[1].symptoms = "  HEADACHE\n"
    /\ outcome[1].remote = NotOk
    /\ outcome[1].end.value.severity = Some("moderate")
    /\ outcome[1].end.value.possibleConditions =
           Some(<<"Tension headache", "Migraine", "Sinus headache",
                  "Dehydration", "Eye strain">>)
    /\ outcome[1].end.value.advice # Some(SeverityAdvice("moderate"))

====
